---- MODULE Spec2Model ----
(***************************************************************************)
(* Model of the fantasy-league derivation engines of nu_choate_league:     *)
(* the Standings Accumulator (src/src/standings.py), the Season            *)
(* Aggregator loop that drives it (src/src/data_processor.py), the         *)
(* Matchup Analyzer (src/src/recap/matchup_processor.py) and the Lineup    *)
(* Optimizer (src/src/recap/team_builder.py).                              *)
(*                                                                         *)
(* Points are integers in thousandths of a point (105.50 is 105500), so    *)
(* that round(x, 2) is a real conversion.  A Python dict is a sequence of  *)
(* records in insertion order, None is the empty sequence and Some(x) the  *)
(* one-element sequence <<x>>.                                             *)
(***************************************************************************)
EXTENDS Integers, Sequences, FiniteSets, TLC

VARIABLES
    rosters_map,        \* keys of rosters_map, in insertion order
    season,             \* week files read so far: season[w] is week_w on disk
    week,               \* loop variable of process_season (0 before the loop)
    cached_standings,   \* None or Some(snapshot) in process_season
    matchups,           \* the week's matchups.json as loaded by the loop body
    transactions,       \* the week's transactions as loaded by the loop body
    standings,          \* the ranked rows standings_to_list returned last
    final_standings,    \* None or Some(rows) of reg_season_recap
    status,             \* "running", "done", "KeyError" (season aborted)
    matchup_results,    \* None or Some(result dict) of process_matchups
    roster_template,    \* league_info roster_positions handed to the lineup builders
    team_matchups,      \* the week's matchups with their player data
    lineup,             \* None or Some([caller, team]): the lineup built last
    heap,               \* the per-roster stats dicts alive in one call, by object id
    previous_dict,      \* previous_standings of that call: roster_id -> object id
    returned_dict,      \* None or Some(dict the call returned): roster_id -> object id
    unmunged,           \* the season directories under the unmunged directory
    stats_by_user,      \* stats_by_user of the Cross-Season Statistics Engine
    manager_stats,      \* None or Some(ranked manager rows)
    h2h_records,        \* None or Some(head-to-head records)
    first_manager_stats,\* None or Some(ranked manager rows of an earlier run)
    stats_pc,           \* position of the engine: "start", "collected", "classified", "ranked"
    batch_dirs,         \* the season directories a batch run finds
    available_seasons,  \* available_seasons of process_data: the years in batch order
    batch_log,          \* the seasons the batch has handled, each with its outcome
    batch_pc,           \* "menu", "running", "completed", "aborted"
    postseason_weeks,   \* number of postseason weeks (playoff_week_start..last_scored_leg)
    postseason,         \* the postseason week files process_season has handled
    api_responses,      \* what the server answers to the requests of a call_api, in order
    api_attempt,        \* attempt of the "for attempt in range(max_retries + 1)" loop
    api_events,         \* the requests.get and time.sleep calls call_api has made
    api_result,         \* None while call_api runs, then what it returned or raised
    bracket_data,       \* winners_bracket.json: the nodes of a bracket
    mapped_bracket,     \* the bracket map_bracket returned
    slot_names          \* the names get_team_from_matchup gave the slots of the nodes

vars == <<rosters_map, season, week, cached_standings, matchups, transactions,
          standings, final_standings, status, matchup_results,
          roster_template, team_matchups, lineup,
          heap, previous_dict, returned_dict,
          unmunged, stats_by_user, manager_stats, h2h_records,
          first_manager_stats, stats_pc,
          batch_dirs, available_seasons, batch_log, batch_pc,
          postseason_weeks, postseason,
          api_responses, api_attempt, api_events, api_result,
          bracket_data, mapped_bracket, slot_names>>

\* the variables of the season loop
seasonVars == <<rosters_map, season, week, cached_standings, matchups,
                transactions, standings, final_standings, status>>

\* the variables of the lineup builders
teamVars == <<roster_template, team_matchups, lineup>>

\* the variables outside the season loop
otherVars == <<matchup_results, roster_template, team_matchups, lineup>>

\* the variables of one call of calculate_weekly_standings_dict on objects
callVars == <<heap, previous_dict, returned_dict>>

\* the variables of the specifications after the first three
\* the variables of the Cross-Season Statistics Engine
statsVars == <<unmunged, stats_by_user, manager_stats, h2h_records,
               first_manager_stats, stats_pc>>

\* the variables of a batch run of process_data
batchVars == <<batch_dirs, available_seasons, batch_log, batch_pc>>

\* the variables of the postseason loop of process_season
postVars == <<postseason_weeks, postseason>>

\* the variables of one call of call_api
apiVars == <<api_responses, api_attempt, api_events, api_result>>

\* the variables of the bracket display
bracketVars == <<bracket_data, mapped_bracket, slot_names>>

extVars == <<callVars, statsVars, batchVars, postVars, apiVars, bracketVars>>

None == <<>>
Some(x) == <<x>>

(***************************************************************************)
(* Bounds and input domains                                                *)
(***************************************************************************)
\* number of regular-season weeks the loop runs over (playoff_week_start - 1)
MaxWeek == 2

\* most transactions in one week's transactions.json
MaxTransactions == 1

\* roster ids of the league; a roster without an owner is left out of
\* rosters_map by load_rosters_map but still plays matchups
AllRosterIds == {1, 2, 3}

\* orders in which rosters.json can list the rosters that have an owner
RosterMaps == {<<2, 1, 3>>, <<2, 1>>}

\* matchup_id values; 0 stands for a missing/None matchup_id (a bye)
MatchupIds == {0, 7}

\* weekly team totals, in thousandths of a point
PointValues == {-1250, 98250, 98252}

\* transaction status values of the Sleeper API
TransactionStatuses == {"complete", "failed"}

\* roster_ids lists a transaction can carry
TransactionRosterLists == {<<1>>, <<2, 1>>, <<3>>}

(***************************************************************************)
(* Sequence helpers                                                        *)
(***************************************************************************)
Range(s) == {s[i] : i \in 1..Len(s)}

(***************************************************************************)
(* Standings Accumulator: src/src/standings.py                             *)
(***************************************************************************)
\* dict lookup helpers on a snapshot (sequence of per-roster records)
HasKey(snapshot, rid) == \E i \in 1..Len(snapshot) : snapshot[i].roster_id = rid
KeyIndex(snapshot, rid) == CHOOSE i \in 1..Len(snapshot) : snapshot[i].roster_id = rid
Lookup(snapshot, rid) == snapshot[KeyIndex(snapshot, rid)]

\* _group_matchups_by_id: the entries of one matchup_id, in list order;
\* entries with a falsy matchup_id are in no group
RECURSIVE GroupOf(_, _)
GroupOf(ms, mid) ==
    IF ms = <<>> THEN <<>>
    ELSE IF Head(ms).matchup_id = mid /\ mid # 0
         THEN <<Head(ms)>> \o GroupOf(Tail(ms), mid)
         ELSE GroupOf(Tail(ms), mid)

\* keys of the grouping dict in insertion order (first occurrence of each id)
RECURSIVE GroupIds(_, _)
GroupIds(ms, seen) ==
    IF ms = <<>> THEN <<>>
    ELSE IF Head(ms).matchup_id # 0 /\ Head(ms).matchup_id \notin seen
         THEN <<Head(ms).matchup_id>> \o GroupIds(Tail(ms), seen \cup {Head(ms).matchup_id})
         ELSE GroupIds(Tail(ms), seen)

\* _initialize_standings: one zeroed record per key of rosters_map
_initialize_standings(rmap) ==
    [i \in 1..Len(rmap) |->
        [roster_id |-> rmap[i], wins |-> 0, losses |-> 0, ties |-> 0,
         pf |-> 0, pa |-> 0, transaction_count |-> 0]]

\* ScoreGroup with the opponent's points-against fed from the wrong side
ScoreGroup_OwnPointsAgainst(snapshot, group) ==
    IF Len(group) # 2 THEN [ok |-> TRUE, standings |-> snapshot]
    ELSE
    LET roster_id1 == group[1].roster_id
        roster_id2 == group[2].roster_id
        points1 == group[1].points
        points2 == group[2].points
    IN  IF ~(roster_id1 # 0 /\ roster_id2 # 0)
        THEN [ok |-> TRUE, standings |-> snapshot]
        ELSE IF ~HasKey(snapshot, roster_id1) \/ ~HasKey(snapshot, roster_id2)
        THEN [ok |-> FALSE, standings |-> <<>>]
        ELSE
        LET i1 == KeyIndex(snapshot, roster_id1)
            i2 == KeyIndex(snapshot, roster_id2)
            s1 == [[snapshot EXCEPT ![i1].pf = @ + points1] EXCEPT ![i1].pa = @ + points2]
            s2 == [[s1 EXCEPT ![i2].pf = @ + points2] EXCEPT ![i2].pa = @ + points2]
            s3 == IF points1 > points2
                  THEN [[s2 EXCEPT ![i1].wins = @ + 1] EXCEPT ![i2].losses = @ + 1]
                  ELSE IF points2 > points1
                  THEN [[s2 EXCEPT ![i1].losses = @ + 1] EXCEPT ![i2].wins = @ + 1]
                  ELSE [[s2 EXCEPT ![i1].ties = @ + 1] EXCEPT ![i2].ties = @ + 1]
        IN  [ok |-> TRUE, standings |-> s3]

\* the body of the "if len(matchup_list) == 2" branch for one group:
\* result is [ok, standings]; ok = FALSE models the KeyError raised by
\* standings[roster_id] for a roster id that is not a key (the dict being
\* updated is local to the call and is lost with the exception)
ScoreGroup(snapshot, group) ==
    IF Len(group) # 2 THEN [ok |-> TRUE, standings |-> snapshot]
    ELSE
    LET roster_id1 == group[1].roster_id
        roster_id2 == group[2].roster_id
        points1 == group[1].points
        points2 == group[2].points
    IN  IF ~(roster_id1 # 0 /\ roster_id2 # 0)
        THEN [ok |-> TRUE, standings |-> snapshot]
        ELSE IF ~HasKey(snapshot, roster_id1) \/ ~HasKey(snapshot, roster_id2)
        THEN [ok |-> FALSE, standings |-> <<>>]
        ELSE
        LET i1 == KeyIndex(snapshot, roster_id1)
            i2 == KeyIndex(snapshot, roster_id2)
            s1 == [[snapshot EXCEPT ![i1].pf = @ + points1] EXCEPT ![i1].pa = @ + points2]
            s2 == [[s1 EXCEPT ![i2].pf = @ + points2] EXCEPT ![i2].pa = @ + points1]
            s3 == IF points1 > points2
                  THEN [[s2 EXCEPT ![i1].wins = @ + 1] EXCEPT ![i2].losses = @ + 1]
                  ELSE IF points2 > points1
                  THEN [[s2 EXCEPT ![i1].losses = @ + 1] EXCEPT ![i2].wins = @ + 1]
                  ELSE [[s2 EXCEPT ![i1].ties = @ + 1] EXCEPT ![i2].ties = @ + 1]
        IN  [ok |-> TRUE, standings |-> s3]

\* a loop that scores the first two entries of every group of two or more
RECURSIVE ScoreGroups_FirstTwo(_, _, _)
ScoreGroups_FirstTwo(snapshot, ms, ids) ==
    IF ids = <<>> THEN [ok |-> TRUE, standings |-> snapshot]
    ELSE LET group == GroupOf(ms, Head(ids))
             r == ScoreGroup(snapshot, IF Len(group) > 2 THEN SubSeq(group, 1, 2) ELSE group)
         IN  IF ~r.ok THEN r ELSE ScoreGroups_FirstTwo(r.standings, ms, Tail(ids))

\* the "for matchup_id, matchup_list in matchup_groups.items()" loop
RECURSIVE ScoreGroups(_, _, _)
ScoreGroups(snapshot, ms, ids) ==
    IF ids = <<>> THEN [ok |-> TRUE, standings |-> snapshot]
    ELSE LET r == ScoreGroup(snapshot, GroupOf(ms, Head(ids)))
         IN  IF ~r.ok THEN r ELSE ScoreGroups(r.standings, ms, Tail(ids))

\* the "for roster_id in roster_ids" loop of one complete transaction
RECURSIVE CountRosterIds(_, _)
CountRosterIds(snapshot, roster_ids) ==
    IF roster_ids = <<>> THEN snapshot
    ELSE LET rid == Head(roster_ids)
             s == IF HasKey(snapshot, rid)
                  THEN [snapshot EXCEPT ![KeyIndex(snapshot, rid)].transaction_count = @ + 1]
                  ELSE snapshot
         IN  CountRosterIds(s, Tail(roster_ids))

\* CountTransactions without the status test
RECURSIVE CountTransactions_AnyStatus(_, _)
CountTransactions_AnyStatus(snapshot, txs) ==
    IF txs = <<>> THEN snapshot
    ELSE CountTransactions_AnyStatus(
             CountRosterIds(snapshot, Head(txs).roster_ids), Tail(txs))

\* the "for transaction in transactions" loop
RECURSIVE CountTransactions(_, _)
CountTransactions(snapshot, txs) ==
    IF txs = <<>> THEN snapshot
    ELSE LET s == IF Head(txs).status = "complete"
                  THEN CountRosterIds(snapshot, Head(txs).roster_ids)
                  ELSE snapshot
         IN  CountTransactions(s, Tail(txs))

\* _process_week_data on the files of one week; wk is a week-file record
\* [has_matchups, matchups, has_transactions, transactions]
_process_week_data(wk, snapshot) ==
    IF ~wk.has_matchups THEN [ok |-> TRUE, standings |-> snapshot]
    ELSE LET r == ScoreGroups(snapshot, wk.matchups, GroupIds(wk.matchups, {}))
         IN  IF ~r.ok THEN r
             ELSE IF wk.has_transactions
                  THEN [ok |-> TRUE, standings |-> CountTransactions(r.standings, wk.transactions)]
                  ELSE r

\* a copy that starts the ties of every roster again at 0
CopyStandings_DropsTies(previous) ==
    [i \in 1..Len(previous) |->
        [roster_id |-> previous[i].roster_id,
         wins |-> previous[i].wins,
         losses |-> previous[i].losses,
         ties |-> 0,
         pf |-> previous[i].pf,
         pa |-> previous[i].pa,
         transaction_count |-> previous[i].transaction_count]]

\* the deep copy of previous_standings, field by field
CopyStandings(previous) ==
    [i \in 1..Len(previous) |->
        [roster_id |-> previous[i].roster_id,
         wins |-> previous[i].wins,
         losses |-> previous[i].losses,
         ties |-> previous[i].ties,
         pf |-> previous[i].pf,
         pa |-> previous[i].pa,
         transaction_count |-> previous[i].transaction_count]]

\* the "for w in range(1, week + 1)" loop of the full path, from week w on
RECURSIVE ProcessWeeksFrom(_, _, _, _)
ProcessWeeksFrom(files, w, last, snapshot) ==
    IF w > last THEN [ok |-> TRUE, standings |-> snapshot]
    ELSE LET r == _process_week_data(files[w], snapshot)
         IN  IF ~r.ok THEN r ELSE ProcessWeeksFrom(files, w + 1, last, r.standings)

\* calculate_weekly_standings_dict(season_dir, week, rosters_map, previous)
calculate_weekly_standings_dict(files, wk, rmap, previous_standings) ==
    IF previous_standings = None
    THEN ProcessWeeksFrom(files, 1, wk, _initialize_standings(rmap))
    ELSE _process_week_data(files[wk], CopyStandings(previous_standings[1]))

(***************************************************************************)
(* Ranking: standings_to_list                                              *)
(***************************************************************************)
\* round() of the rational num/den (den > 0) to an integer, half to even
RoundHalfEven(num, den) ==
    LET q == num \div den
        r == num % den
    IN  IF 2 * r < den THEN q
        ELSE IF 2 * r > den THEN q + 1
        ELSE IF q % 2 = 0 THEN q ELSE q + 1

\* round(wins / total_games, 4), in units of 0.0001
Round4(wins, total_games) == RoundHalfEven(10000 * wins, total_games)

\* round(x, 2) of a value in thousandths, in units of 0.01
Round2(x) == RoundHalfEven(x, 10)

\* the row built for one roster
StandingsRow(stats) ==
    LET total_games == stats.wins + stats.losses + stats.ties
        win_pct == IF total_games > 0 THEN Round4(stats.wins, total_games) ELSE 0
    IN  [roster_id |-> stats.roster_id,
         wins |-> stats.wins,
         losses |-> stats.losses,
         ties |-> stats.ties,
         win_pct |-> win_pct,
         pf |-> Round2(stats.pf),
         pa |-> Round2(stats.pa),
         transaction_count |-> stats.transaction_count]

\* a sort key that leaves out win_pct
KeyLess_PointsOnly(a, b) == a.pf < b.pf

\* tuple comparison (win_pct, pf) < (win_pct, pf) of the sort key
KeyLess(a, b) ==
    a.win_pct < b.win_pct \/ (a.win_pct = b.win_pct /\ a.pf < b.pf)

\* an insertion that puts a row before the rows of equal key
RECURSIVE InsertDesc_BeforeEquals(_, _)
InsertDesc_BeforeEquals(sorted, x) ==
    IF sorted = <<>> THEN <<x>>
    ELSE IF ~KeyLess(x, Head(sorted))
         THEN <<x>> \o sorted
         ELSE <<Head(sorted)>> \o InsertDesc_BeforeEquals(Tail(sorted), x)

\* insertion point of row x in a list already in descending key order:
\* after every row whose key is not smaller, so equal keys keep list order
RECURSIVE InsertDesc(_, _)
InsertDesc(sorted, x) ==
    IF sorted = <<>> THEN <<x>>
    ELSE IF KeyLess(Head(sorted), x)
         THEN <<x>> \o sorted
         ELSE <<Head(sorted)>> \o InsertDesc(Tail(sorted), x)

\* list.sort(key=..., reverse=True): a stable sort in descending key order
RECURSIVE SortDesc(_, _)
SortDesc(rows, acc) ==
    IF rows = <<>> THEN acc
    ELSE SortDesc(Tail(rows), InsertDesc(acc, Head(rows)))

\* standings_to_list
standings_to_list(snapshot) ==
    SortDesc([i \in 1..Len(snapshot) |-> StandingsRow(snapshot[i])], <<>>)

\* calculate_weekly_standings
calculate_weekly_standings(files, wk, rmap, previous_standings) ==
    LET r == calculate_weekly_standings_dict(files, wk, rmap, previous_standings)
    IN  IF r.ok THEN [ok |-> TRUE, rows |-> standings_to_list(r.standings)]
        ELSE [ok |-> FALSE, rows |-> <<>>]

(***************************************************************************)
(* Lineup Optimizer: src/src/recap/team_builder.py                         *)
(***************************************************************************)
POSITION_QB == "QB"
POSITION_RB == "RB"
POSITION_WR == "WR"
POSITION_TE == "TE"
POSITION_K == "K"
POSITION_DEF == "DEF"
POSITION_FLEX == "FLEX"
POSITION_BN == "BN"
FLEX_ELIGIBLE_POSITIONS == <<POSITION_TE, POSITION_RB, POSITION_WR>>

\* players.json: the fantasy_positions of the players that have some; the
\* player "X1" of the pool has none and is no key of positions_map
positions_map ==
    [pid \in {"QB1", "QB2", "RB1", "RW1", "WR1", "TE1", "K1", "DEF1", "KD1"} |->
        CASE pid = "QB1" -> <<POSITION_QB>>
          [] pid = "QB2" -> <<POSITION_QB>>
          [] pid = "RB1" -> <<POSITION_RB>>
          [] pid = "RW1" -> <<POSITION_RB, POSITION_WR>>
          [] pid = "WR1" -> <<POSITION_WR>>
          [] pid = "TE1" -> <<POSITION_TE>>
          [] pid = "K1" -> <<POSITION_K>>
          [] pid = "DEF1" -> <<POSITION_DEF>>
          [] pid = "KD1" -> <<POSITION_K, POSITION_DEF>>]

\* "pos in positions" for a player of positions_map
HasPosition(pid, pos) == pos \in Range(positions_map[pid])

\* is_flex_eligible
is_flex_eligible(player_id) ==
    IF player_id \notin DOMAIN positions_map THEN FALSE
    ELSE \E i \in 1..Len(positions_map[player_id]) :
            positions_map[player_id][i] \in Range(FLEX_ELIGIBLE_POSITIONS)

\* the filter loop of _build_team over the items of players_points;
\* starters is None or Some(list), an empty list is falsy
RECURSIVE AvailablePlayers(_, _, _)
AvailablePlayers(players_points, starters, min_points) ==
    IF players_points = <<>> THEN <<>>
    ELSE
    LET pid == Head(players_points).player_id
        pts == Head(players_points).points
        rest == AvailablePlayers(Tail(players_points), starters, min_points)
        is_def == pid \in DOMAIN positions_map /\ HasPosition(pid, POSITION_DEF)
    IN  IF starters # None /\ starters[1] # <<>> /\ pid \in Range(starters[1])
        THEN rest
        ELSE IF starters # None /\ pts <= 0 /\ ~is_def
        THEN rest
        ELSE IF pts < min_points /\ ~is_def
        THEN rest
        ELSE <<Head(players_points)>> \o rest

\* a bucket that takes a player without entry in positions_map as well
RECURSIVE Bucket_WithUnmapped(_, _)
Bucket_WithUnmapped(available, pos) ==
    IF available = <<>> THEN <<>>
    ELSE IF Head(available).player_id \in DOMAIN positions_map
            => HasPosition(Head(available).player_id, pos)
         THEN <<Head(available)>> \o Bucket_WithUnmapped(Tail(available), pos)
         ELSE Bucket_WithUnmapped(Tail(available), pos)

\* the bucket of one position: the available players of positions_map that
\* have it, in dict order
RECURSIVE Bucket(_, _)
Bucket(available, pos) ==
    IF available = <<>> THEN <<>>
    ELSE IF /\ Head(available).player_id \in DOMAIN positions_map
            /\ HasPosition(Head(available).player_id, pos)
         THEN <<Head(available)>> \o Bucket(Tail(available), pos)
         ELSE Bucket(Tail(available), pos)

\* the flex_eligible bucket
RECURSIVE FlexBucket(_)
FlexBucket(available) ==
    IF available = <<>> THEN <<>>
    ELSE IF /\ Head(available).player_id \in DOMAIN positions_map
            /\ is_flex_eligible(Head(available).player_id)
         THEN <<Head(available)>> \o FlexBucket(Tail(available))
         ELSE FlexBucket(Tail(available))

\* the place of x in a bucket already sorted: list.sort(key=points,
\* reverse=reverse_sort) is stable, equal points keep bucket order
RECURSIVE InsertByPoints(_, _, _)
InsertByPoints(sorted, x, reverse_sort) ==
    IF sorted = <<>> THEN <<x>>
    ELSE IF (IF reverse_sort THEN Head(sorted).points < x.points
                             ELSE x.points < Head(sorted).points)
         THEN <<x>> \o sorted
         ELSE <<Head(sorted)>> \o InsertByPoints(Tail(sorted), x, reverse_sort)

RECURSIVE SortByPoints(_, _, _)
SortByPoints(bucket, acc, reverse_sort) ==
    IF bucket = <<>> THEN acc
    ELSE SortByPoints(Tail(bucket), InsertByPoints(acc, Head(bucket), reverse_sort),
                      reverse_sort)

\* team[label] = player_info; a label is [pos, n]: RB1 is ["RB", 1] and the
\* unnumbered QB, TE, K, DEF have n = 0
Place(st, pos, n, player) ==
    [st EXCEPT !.team = Append(@, [pos |-> pos, n |-> n,
                                   player_id |-> player.player_id,
                                   points |-> player.points]),
               !.used = @ \cup {player.player_id}]

\* "Fill QB"
FillQB(st, roster_positions, qbs) ==
    IF roster_positions[1] = POSITION_QB /\ qbs # <<>>
    THEN Place(st, POSITION_QB, 0, qbs[1])
    ELSE st

\* "Fill RB1, RB2" and "Fill WR1, WR2": the loop over roster_positions with
\* the index idx into the bucket, which moves on only when a player is placed
RECURSIVE FillIndexed(_, _, _, _, _)
FillIndexed(st, slots, pos, bucket, idx) ==
    IF slots = <<>> THEN st
    ELSE IF Head(slots) = pos /\ idx < Len(bucket)
         THEN IF bucket[idx + 1].player_id \notin st.used
              THEN FillIndexed(Place(st, pos, idx + 1, bucket[idx + 1]),
                               Tail(slots), pos, bucket, idx + 1)
              ELSE FillIndexed(st, Tail(slots), pos, bucket, idx)
         ELSE FillIndexed(st, Tail(slots), pos, bucket, idx)

\* "Fill TE" and "Fill K": the first slot of the position takes the head of
\* the bucket if it is not used yet
FillFirst(st, roster_positions, pos, bucket) ==
    IF pos \in Range(roster_positions) /\ bucket # <<>>
       /\ bucket[1].player_id \notin st.used
    THEN Place(st, pos, 0, bucket[1])
    ELSE st

\* a FLEX loop that takes the best flex-eligible player, used or not
RECURSIVE FillFlex_UsedOrNot(_, _, _, _)
FillFlex_UsedOrNot(st, slots, flex_eligible, flex_idx) ==
    IF slots = <<>> THEN st
    ELSE IF Head(slots) = POSITION_FLEX /\ flex_idx < 2 /\ flex_eligible # <<>>
         THEN FillFlex_UsedOrNot(Place(st, POSITION_FLEX, flex_idx + 1, flex_eligible[1]),
                                 Tail(slots), flex_eligible, flex_idx + 1)
         ELSE FillFlex_UsedOrNot(st, Tail(slots), flex_eligible, flex_idx)

\* "Fill FLEX positions": each FLEX slot, while flex_idx < 2, takes the
\* first flex-eligible player not used yet
RECURSIVE FillFlex(_, _, _, _)
FillFlex(st, slots, flex_eligible, flex_idx) ==
    IF slots = <<>> THEN st
    ELSE IF Head(slots) = POSITION_FLEX /\ flex_idx < 2
         THEN LET free == {i \in 1..Len(flex_eligible) :
                             flex_eligible[i].player_id \notin st.used}
              IN  IF free = {} THEN FillFlex(st, Tail(slots), flex_eligible, flex_idx)
                  ELSE LET i == CHOOSE k \in free : \A m \in free : k <= m
                       IN  FillFlex(Place(st, POSITION_FLEX, flex_idx + 1, flex_eligible[i]),
                                    Tail(slots), flex_eligible, flex_idx + 1)
         ELSE FillFlex(st, Tail(slots), flex_eligible, flex_idx)

\* "Fill DEF": the first DEF slot takes the head of the bucket
FillDEF(st, roster_positions, defs) ==
    IF POSITION_DEF \in Range(roster_positions) /\ defs # <<>>
    THEN Place(st, POSITION_DEF, 0, defs[1])
    ELSE st

\* the team and used_players of _build_team before "Fill FLEX positions",
\* after it, and at the end
BuildStages(players_points, roster_positions, reverse_sort, starters, min_points) ==
    LET available == AvailablePlayers(players_points, starters, min_points)
        Sorted(b) == SortByPoints(b, <<>>, reverse_sort)
        qbs == Sorted(Bucket(available, POSITION_QB))
        rbs == Sorted(Bucket(available, POSITION_RB))
        wrs == Sorted(Bucket(available, POSITION_WR))
        tes == Sorted(Bucket(available, POSITION_TE))
        ks == Sorted(Bucket(available, POSITION_K))
        defs == Sorted(Bucket(available, POSITION_DEF))
        flex_eligible == Sorted(FlexBucket(available))
        st0 == [team |-> <<>>, used |-> {}]
        st1 == FillQB(st0, roster_positions, qbs)
        st2 == FillIndexed(st1, roster_positions, POSITION_RB, rbs, 0)
        st3 == FillIndexed(st2, roster_positions, POSITION_WR, wrs, 0)
        st4 == FillFirst(st3, roster_positions, POSITION_TE, tes)
        st5 == FillFlex(st4, roster_positions, flex_eligible, 0)
        st6 == FillFirst(st5, roster_positions, POSITION_K, ks)
        st7 == FillDEF(st6, roster_positions, defs)
    IN  [before_flex |-> st4, after_flex |-> st5, final |-> st7]

\* _build_team; the result is the team dict as the list of its items
_build_team(players_points, roster_positions, reverse_sort, starters, min_points) ==
    BuildStages(players_points, roster_positions, reverse_sort, starters,
                min_points).final.team

\* build_optimal_team
build_optimal_team(players_points, starters, roster_positions) ==
    _build_team(players_points, roster_positions, TRUE, Some(starters), 0)

\* build_lowest_team
build_lowest_team(players_points, roster_positions) ==
    _build_team(players_points, roster_positions, FALSE, None, 0)

\* the lineup built by _calculate_optimal_lineup_score for one matchup
OptimalLineup(matchup, roster_positions) ==
    _build_team(matchup.players_points, roster_positions, TRUE, None, 0)

RECURSIVE SumPoints(_)
SumPoints(team) == IF team = <<>> THEN 0 ELSE Head(team).points + SumPoints(Tail(team))

\* a score taken from the lineup of the lowest scorers
_calculate_optimal_lineup_score_Lowest(matchup, roster_positions) ==
    SumPoints(_build_team(matchup.players_points, roster_positions, FALSE, None, 0))

\* _calculate_optimal_lineup_score
_calculate_optimal_lineup_score(matchup, roster_positions) ==
    SumPoints(OptimalLineup(matchup, roster_positions))

\* d[key] = value on a dict kept as the list of its items: a key already
\* present keeps its place
DictPut(d, pid, pts) ==
    IF \E i \in 1..Len(d) : d[i].player_id = pid
    THEN [i \in 1..Len(d) |-> IF d[i].player_id = pid
                              THEN [player_id |-> pid, points |-> pts] ELSE d[i]]
    ELSE Append(d, [player_id |-> pid, points |-> pts])

DictHas(d, pid) == \E i \in 1..Len(d) : d[i].player_id = pid

\* players_points.get(pid, 0.0)
PointsOf(d, pid) ==
    IF DictHas(d, pid) THEN d[CHOOSE i \in 1..Len(d) : d[i].player_id = pid].points
    ELSE 0

\* the orders in which Python can iterate over the set of the ids in ids
SetOrders(ids) ==
    {o \in [1..Cardinality(Range(ids)) -> Range(ids)] :
        \A i, j \in 1..Len(o) : i # j => o[i] # o[j]}

\* all_players_points of process_matchups: the best score of every player
\* over the matchups of the week
RECURSIVE BestScores(_, _)
BestScores(d, items) ==
    IF items = <<>> THEN d
    ELSE LET it == Head(items)
         IN  BestScores(IF ~DictHas(d, it.player_id) \/ it.points > PointsOf(d, it.player_id)
                        THEN DictPut(d, it.player_id, it.points) ELSE d,
                        Tail(items))

RECURSIVE AllPlayersPoints(_, _)
AllPlayersPoints(d, ms) ==
    IF ms = <<>> THEN d
    ELSE AllPlayersPoints(BestScores(d, Head(ms).players_points), Tail(ms))

\* a loop that keeps the score of the last matchup a starter was seen in
RECURSIVE LowestScores_LastSeen(_, _, _)
LowestScores_LastSeen(d, players_points, order) ==
    IF order = <<>> THEN d
    ELSE LowestScores_LastSeen(
             DictPut(d, Head(order), PointsOf(players_points, Head(order))),
             players_points, Tail(order))

\* starter_players_points of process_matchups: the lowest score of every
\* starter; orders[k] is the order in which set(starters) of the k-th
\* matchup is iterated
RECURSIVE LowestScores(_, _, _)
LowestScores(d, players_points, order) ==
    IF order = <<>> THEN d
    ELSE LET pid == Head(order)
             pts == PointsOf(players_points, pid)
         IN  LowestScores(IF ~DictHas(d, pid) \/ pts < PointsOf(d, pid)
                          THEN DictPut(d, pid, pts) ELSE d,
                          players_points, Tail(order))

RECURSIVE StarterPlayersPoints(_, _, _)
StarterPlayersPoints(d, ms, orders) ==
    IF ms = <<>> THEN d
    ELSE StarterPlayersPoints(LowestScores(d, Head(ms).players_points, Head(orders)),
                              Tail(ms), Tail(orders))

\* bench_players = all_players - starters
BenchPlayers(matchup) ==
    SelectSeq(matchup.players, LAMBDA pid : pid \notin Range(matchup.starters))

\* starter_points_by_pos[pos] of one matchup, as the set of the points
StarterPointsByPos(matchup, pos) ==
    {PointsOf(matchup.players_points, sid) :
        sid \in {x \in Range(matchup.starters) :
                    x \in DOMAIN positions_map /\ HasPosition(x, pos)}}

SetMin(S) == CHOOSE x \in S : \A y \in S : x <= y

\* an is_benchwarmer that is content with the score of the lowest starter
IsBenchwarmer_NotStrict(matchup, bench_id) ==
    LET bench_points == PointsOf(matchup.players_points, bench_id)
        Beats(pos) ==
            /\ pos \in {POSITION_QB, POSITION_RB, POSITION_WR, POSITION_TE,
                         POSITION_K, POSITION_DEF}
            /\ StarterPointsByPos(matchup, pos) # {}
            /\ bench_points >= SetMin(StarterPointsByPos(matchup, pos))
    IN  /\ bench_id \in DOMAIN positions_map
        /\ \/ \E i \in 1..Len(positions_map[bench_id]) : Beats(positions_map[bench_id][i])
           \/ /\ is_flex_eligible(bench_id)
              /\ \E pos \in {POSITION_RB, POSITION_WR, POSITION_TE} : Beats(pos)

\* is_benchwarmer for a bench player of a matchup
IsBenchwarmer(matchup, bench_id) ==
    LET bench_points == PointsOf(matchup.players_points, bench_id)
        Beats(pos) ==
            /\ pos \in {POSITION_QB, POSITION_RB, POSITION_WR, POSITION_TE,
                         POSITION_K, POSITION_DEF}
            /\ StarterPointsByPos(matchup, pos) # {}
            /\ bench_points > SetMin(StarterPointsByPos(matchup, pos))
    IN  /\ bench_id \in DOMAIN positions_map
        /\ \/ \E i \in 1..Len(positions_map[bench_id]) : Beats(positions_map[bench_id][i])
           \/ /\ is_flex_eligible(bench_id)
              /\ \E pos \in {POSITION_RB, POSITION_WR, POSITION_TE} : Beats(pos)

\* the "for bench_id in bench_players" loop; order is the iteration order
RECURSIVE BenchLoop(_, _, _)
BenchLoop(d, matchup, order) ==
    IF order = <<>> THEN d
    ELSE LET bench_id == Head(order)
             bench_points == PointsOf(matchup.players_points, bench_id)
         IN  BenchLoop(IF IsBenchwarmer(matchup, bench_id)
                          /\ (~DictHas(d, bench_id) \/ bench_points > PointsOf(d, bench_id))
                       THEN DictPut(d, bench_id, bench_points) ELSE d,
                       matchup, Tail(order))

\* benchwarmers_points over the matchups of the week
RECURSIVE BenchwarmersPoints(_, _, _)
BenchwarmersPoints(d, ms, orders) ==
    IF ms = <<>> THEN d
    ELSE BenchwarmersPoints(BenchLoop(d, Head(ms), Head(orders)), Tail(ms), Tail(orders))

\* _build_benchwarmers_team
_build_benchwarmers_team(ms, roster_positions, orders) ==
    _build_team(BenchwarmersPoints(<<>>, ms, orders), roster_positions, TRUE, None, 0)

(***************************************************************************)
(* Teams of a week as the lineup builders see them                         *)
(***************************************************************************)
\* most players on one team
MaxPlayers == 2

\* the players of the league, in the order a matchup lists them
PlayerPool == <<"QB1", "QB2", "RB1", "RW1", "WR1", "TE1", "K1", "DEF1", "KD1", "X1">>

\* weekly points of one player, in thousandths of a point
PlayerPointValues == {-2000, 0, 6000}

\* league_info roster_positions
RosterTemplates ==
    {<<"QB", "RB", "RB", "WR", "WR", "TE", "FLEX", "FLEX", "K", "DEF", "BN">>,
     <<"QB", "RB", "WR", "TE", "K", "DEF", "BN">>}

\* the rosters of at most n players of the pool, in pool order, each player
\* with points and starter flag
RECURSIVE Rosters(_, _)
Rosters(pool, n) ==
    IF pool = <<>> \/ n = 0 THEN {<<>>}
    ELSE Rosters(Tail(pool), n)
         \cup {<<[player_id |-> Head(pool), points |-> p, started |-> b]>> \o r :
                  p \in PlayerPointValues, b \in BOOLEAN, r \in Rosters(Tail(pool), n - 1)}

\* the matchup entry of a team with the roster r
TeamEntry(r) ==
    [players |-> [i \in 1..Len(r) |-> r[i].player_id],
     starters |-> LET st == SelectSeq(r, LAMBDA x : x.started)
                  IN  [i \in 1..Len(st) |-> st[i].player_id],
     players_points |-> [i \in 1..Len(r) |->
                            [player_id |-> r[i].player_id, points |-> r[i].points]]]

\* the matchups of a week: one team with some players
TeamMatchupLists(pool, n) == {<<TeamEntry(r)>> : r \in Rosters(pool, n) \ {<<>>}}

(***************************************************************************)
(* Week files the loader can leave on disk.  save_league_info writes       *)
(* matchups.json before transactions.json, so a week has neither file,     *)
(* matchups only, or both.  The API lists a roster once per week.          *)
(***************************************************************************)
Entries == [matchup_id : MatchupIds, roster_id : AllRosterIds, points : PointValues]

MatchupLists ==
    {ms \in UNION {[1..n -> Entries] : n \in 0..Cardinality(AllRosterIds)} :
        \A i, j \in 1..Len(ms) : i < j => ms[i].roster_id < ms[j].roster_id}

Transactions == [status : TransactionStatuses, roster_ids : TransactionRosterLists]

TransactionLists == UNION {[1..n -> Transactions] : n \in 0..MaxTransactions}

NoWeekFile ==
    [has_matchups |-> FALSE, matchups |-> <<>>,
     has_transactions |-> FALSE, transactions |-> <<>>]

WeekFilesOver(mlists, tlists) ==
    {NoWeekFile}
    \cup {[has_matchups |-> TRUE, matchups |-> ms,
           has_transactions |-> FALSE, transactions |-> <<>>] : ms \in mlists}
    \cup {[has_matchups |-> TRUE, matchups |-> ms,
           has_transactions |-> TRUE, transactions |-> ts] :
               ms \in mlists, ts \in tlists}

\* head-to-head weeks between two rosters
SeasonMatchupLists ==
    {ms \in MatchupLists : Len(ms) = 2 /\ \A i \in 1..Len(ms) : ms[i].matchup_id # 0}

\* a week of trades: every transaction complete and between two rosters
SeasonTransactionLists ==
    {ts \in TransactionLists :
        Len(ts) = MaxTransactions
        /\ \A i \in 1..Len(ts) : ts[i].status = "complete" /\ Len(ts[i].roster_ids) = 2}

\* the weeks before the last one
SeasonWeekFiles ==
    {f \in WeekFilesOver(SeasonMatchupLists, SeasonTransactionLists) :
        f.has_matchups => f.has_transactions}

\* the last week: any matchups list without transactions file, or a
\* head-to-head week with any transactions list
LastWeekFiles ==
    WeekFilesOver(MatchupLists, {}) \cup WeekFilesOver(SeasonMatchupLists, TransactionLists)

WeekFilesAt(w) == IF w < MaxWeek THEN SeasonWeekFiles ELSE LastWeekFiles

TeamIdle ==
    /\ roster_template = <<>>
    /\ team_matchups = <<>>
    /\ lineup = None

OtherIdle == matchup_results = None /\ TeamIdle

CallIdle ==
    /\ heap = <<>>
    /\ previous_dict = <<>>
    /\ returned_dict = None

StatsIdle ==
    /\ unmunged = <<>>
    /\ stats_by_user = <<>>
    /\ manager_stats = None
    /\ h2h_records = None
    /\ first_manager_stats = None
    /\ stats_pc = "start"

BatchIdle ==
    /\ batch_dirs = <<>>
    /\ available_seasons = <<>>
    /\ batch_log = <<>>
    /\ batch_pc = "menu"

PostIdle ==
    /\ postseason_weeks = 0
    /\ postseason = <<>>

ApiIdle ==
    /\ api_responses = <<>>
    /\ api_attempt = 0
    /\ api_events = <<>>
    /\ api_result = None

BracketIdle ==
    /\ bracket_data = <<>>
    /\ mapped_bracket = None
    /\ slot_names = None

ExtIdle == CallIdle /\ StatsIdle /\ BatchIdle /\ PostIdle /\ ApiIdle /\ BracketIdle

(***************************************************************************)
(* Season Aggregator: the regular-season loop of process_season            *)
(***************************************************************************)
SeasonInit ==
    /\ rosters_map \in RosterMaps
    /\ season = <<>>
    /\ week = 0
    /\ cached_standings = None
    /\ matchups = <<>>
    /\ transactions = <<>>
    /\ standings = <<>>
    /\ final_standings = None
    /\ status = "running"

\* one iteration of "for week in regular_season_weeks" on the files wk
LoopBody(wk) ==
    /\ season' = Append(season, wk)
    /\ week' = week + 1
    /\ UNCHANGED <<rosters_map, final_standings>>
    /\ IF ~wk.has_matchups
       THEN \* "No matchups file found, skipping"
            UNCHANGED <<cached_standings, matchups, transactions, standings, status>>
       ELSE /\ matchups' = wk.matchups
            /\ transactions' = IF wk.has_transactions THEN wk.transactions ELSE <<>>
            /\ LET r == calculate_weekly_standings_dict(
                            season', week', rosters_map, cached_standings)
               IN  IF r.ok
                   THEN /\ cached_standings' = Some(r.standings)
                        /\ standings' = standings_to_list(r.standings)
                        /\ status' = "running"
                   ELSE /\ status' = "KeyError"
                        /\ UNCHANGED <<cached_standings, standings>>

\* the loop over a season of MaxWeek regular-season weeks
ProcessWeek ==
    /\ status = "running"
    /\ week < MaxWeek
    /\ \E wk \in WeekFilesAt(week + 1) : LoopBody(wk)
    /\ UNCHANGED otherVars
    /\ UNCHANGED extVars

\* "Generating regular season recap...": the final standings after the loop
FinishRegularSeason ==
    /\ status = "running"
    /\ week = MaxWeek
    /\ LET r == IF cached_standings # None
                THEN [ok |-> TRUE, rows |-> standings_to_list(cached_standings[1])]
                ELSE calculate_weekly_standings(season, MaxWeek, rosters_map, None)
       IN  /\ final_standings' = IF r.ok THEN Some(r.rows) ELSE None
           /\ status' = IF r.ok THEN "done" ELSE "KeyError"
    /\ UNCHANGED <<rosters_map, season, week, cached_standings, matchups,
                   transactions, standings>>
    /\ UNCHANGED otherVars
    /\ UNCHANGED extVars

Init == SeasonInit /\ OtherIdle /\ ExtIdle

Next == ProcessWeek \/ FinishRegularSeason

Spec == Init /\ [][Next]_vars

(***************************************************************************)
(* Matchup Analyzer: the results of process_matchups                       *)
(***************************************************************************)
\* matchup_results[roster_id] = result on the dict kept as the list of its
\* items
ResultPut(d, result) ==
    IF \E i \in 1..Len(d) : d[i].roster_id = result.roster_id
    THEN [i \in 1..Len(d) |-> IF d[i].roster_id = result.roster_id THEN result ELSE d[i]]
    ELSE Append(d, result)

\* a result in which a side wins on equal points as well
MatchupResult_WinsTies(me, opp) ==
    [roster_id |-> me.roster_id,
     opponent_roster_id |-> opp.roster_id,
     points |-> me.points,
     opponent_points |-> opp.points,
     won |-> me.points >= opp.points,
     margin |-> me.points - opp.points]

\* the result of one side of a two-entry group
MatchupResult(me, opp) ==
    [roster_id |-> me.roster_id,
     opponent_roster_id |-> opp.roster_id,
     points |-> me.points,
     opponent_points |-> opp.points,
     won |-> me.points > opp.points,
     margin |-> me.points - opp.points]

\* the "for matchup_id, matchup_list in matchup_groups.items()" loop of
\* process_matchups
RECURSIVE MatchupResults(_, _, _)
MatchupResults(d, ms, ids) ==
    IF ids = <<>> THEN d
    ELSE LET matchup_list == GroupOf(ms, Head(ids))
         IN  IF Len(matchup_list) = 2
             THEN MatchupResults(
                      ResultPut(ResultPut(d, MatchupResult(matchup_list[1], matchup_list[2])),
                                MatchupResult(matchup_list[2], matchup_list[1])),
                      ms, Tail(ids))
             ELSE MatchupResults(d, ms, Tail(ids))

\* matchup_results of process_matchups
process_matchups(ms) == MatchupResults(<<>>, ms, GroupIds(ms, {}))

ResultsInit ==
    /\ rosters_map \in RosterMaps
    /\ matchups \in MatchupLists
    /\ matchup_results = None
    /\ season = <<>>
    /\ week = 0
    /\ cached_standings = None
    /\ transactions = <<>>
    /\ standings = <<>>
    /\ final_standings = None
    /\ status = "running"
    /\ TeamIdle
    /\ ExtIdle

\* generate_weekly_recap calls process_matchups on the week's matchups
ProcessMatchups ==
    /\ matchup_results = None
    /\ matchup_results' = Some(process_matchups(matchups))
    /\ UNCHANGED seasonVars
    /\ UNCHANGED teamVars
    /\ UNCHANGED extVars

SpecResults == ResultsInit /\ [][ProcessMatchups]_vars

\* the results of roster r
ResultsOf(r) ==
    {i \in 1..Len(matchup_results[1]) : matchup_results[1][i].roster_id = r}

\* C5: process_matchups gives a result to exactly the rosters of the
\* two-entry groups: won = (own points > opponent points) and margin = own
\* points - opponent points, so the two margins are negatives of each
\* other, at most one side has won, and on equal points both have won =
\* false and margin 0; a roster of a group of another size has no result.
C5_PairsScored ==
    matchup_results # None =>
        LET ms == matchups
            res == matchup_results[1]
            paired == {i \in 1..Len(ms) : Len(GroupOf(ms, ms[i].matchup_id)) = 2}
            Opp(i) == CHOOSE j \in paired : j # i /\ ms[j].matchup_id = ms[i].matchup_id
            Res(i) == res[CHOOSE k \in ResultsOf(ms[i].roster_id) : TRUE]
        IN  /\ \A i \in paired :
                /\ Cardinality(ResultsOf(ms[i].roster_id)) = 1
                /\ Res(i).opponent_roster_id = ms[Opp(i)].roster_id
                /\ Res(i).points = ms[i].points
                /\ Res(i).opponent_points = ms[Opp(i)].points
                /\ Res(i).won = (ms[i].points > ms[Opp(i)].points)
                /\ Res(i).margin = ms[i].points - ms[Opp(i)].points
                /\ Res(i).margin = 0 - Res(Opp(i)).margin
                /\ ~(Res(i).won /\ Res(Opp(i)).won)
                /\ (ms[i].points = ms[Opp(i)].points) =>
                        (~Res(i).won /\ ~Res(Opp(i)).won /\ Res(i).margin = 0)
            /\ \A i \in 1..Len(ms) : i \notin paired => ResultsOf(ms[i].roster_id) = {}
            /\ Len(res) = Cardinality(paired)

\* a decided pair next to a roster on a bye, which has no result
C5_Witness ==
    /\ matchup_results # None
    /\ Len(matchups) = 3
    /\ Len(matchup_results[1]) = 2
    /\ \E i \in 1..2 : matchup_results[1][i].won /\ matchup_results[1][i].margin > 0
    /\ \E i \in 1..2 : ~matchup_results[1][i].won /\ matchup_results[1][i].margin < 0

\* a pair on equal points
C5_WitnessTie ==
    /\ matchup_results # None
    /\ Len(matchup_results[1]) = 2
    /\ \A i \in 1..2 : ~matchup_results[1][i].won /\ matchup_results[1][i].margin = 0

\* three entries under one matchup_id: nobody has a result
C5_WitnessGroupOfThree ==
    /\ matchup_results # None
    /\ Len(matchups) = 3
    /\ \A i \in 1..3 : matchups[i].matchup_id # 0
    /\ matchup_results[1] = <<>>

(***************************************************************************)
(* The lineups of a week: process_matchups and calculate_awards            *)
(***************************************************************************)
SeasonIdle ==
    /\ rosters_map = <<>>
    /\ season = <<>>
    /\ week = 0
    /\ cached_standings = None
    /\ matchups = <<>>
    /\ transactions = <<>>
    /\ standings = <<>>
    /\ final_standings = None
    /\ status = "running"

TeamInit ==
    /\ roster_template \in RosterTemplates
    /\ team_matchups \in TeamMatchupLists(PlayerPool, MaxPlayers)
    /\ lineup = None
    /\ matchup_results = None
    /\ SeasonIdle
    /\ ExtIdle

\* candidates is the players_points dict the caller hands to _build_team
Built(caller, direction, candidates, team) ==
    /\ lineup' = Some([caller |-> caller, direction |-> direction,
                       candidates |-> candidates, team |-> team])
    /\ UNCHANGED <<roster_template, team_matchups, matchup_results>>
    /\ UNCHANGED seasonVars
    /\ UNCHANGED extVars

\* highest_starters_team of process_matchups: the best possible lineup
BestPossibleLineup ==
    /\ lineup = None
    /\ Built("build_optimal_team", "MAX", AllPlayersPoints(<<>>, team_matchups),
             build_optimal_team(AllPlayersPoints(<<>>, team_matchups), <<>>,
                                roster_template))

\* lowest_starters_team of process_matchups: the worst started lineup
WorstStartedLineup ==
    /\ lineup = None
    /\ \E orders \in [1..Len(team_matchups) -> UNION {SetOrders(team_matchups[k].starters) :
                                                        k \in 1..Len(team_matchups)}] :
        /\ \A k \in 1..Len(team_matchups) : orders[k] \in SetOrders(team_matchups[k].starters)
        /\ Built("build_lowest_team", "MIN",
                 StarterPlayersPoints(<<>>, team_matchups, orders),
                 build_lowest_team(StarterPlayersPoints(<<>>, team_matchups, orders),
                                   roster_template))

\* benchwarmers_team of process_matchups: the bench standouts
BenchStandoutsLineup ==
    /\ lineup = None
    /\ \E orders \in [1..Len(team_matchups) ->
                        UNION {SetOrders(BenchPlayers(team_matchups[k])) :
                                  k \in 1..Len(team_matchups)}] :
        /\ \A k \in 1..Len(team_matchups) :
                orders[k] \in SetOrders(BenchPlayers(team_matchups[k]))
        /\ Built("_build_benchwarmers_team", "MAX",
                 BenchwarmersPoints(<<>>, team_matchups, orders),
                 _build_benchwarmers_team(team_matchups, roster_template, orders))

\* the optimal lineup of one team, built by calculate_awards for its bench
\* efficiency
TeamOptimalLineup ==
    /\ lineup = None
    /\ \E k \in 1..Len(team_matchups) :
        Built("_calculate_optimal_lineup_score", "MAX",
              team_matchups[k].players_points,
              OptimalLineup(team_matchups[k], roster_template))

TeamNext ==
    \/ BestPossibleLineup
    \/ WorstStartedLineup
    \/ BenchStandoutsLineup
    \/ TeamOptimalLineup

SpecTeam == TeamInit /\ [][TeamNext]_vars

(***************************************************************************)
(* Properties of the Lineup Optimizer                                      *)
(***************************************************************************)
\* C2: no lineup _build_team returns holds the same participant in two
\* slots.
C2_NoParticipantTwice ==
    lineup # None =>
        \A i, j \in 1..Len(lineup[1].team) :
            i # j => lineup[1].team[i].player_id # lineup[1].team[j].player_id

\* C3: no MAX-direction lineup of any caller holds a participant with
\* points <= 0 that is not DEF-eligible.
C3_MaxLineupsWithoutZeroScorers ==
    (lineup # None /\ lineup[1].direction = "MAX") =>
        \A i \in 1..Len(lineup[1].team) :
            lineup[1].team[i].points <= 0 =>
                HasPosition(lineup[1].team[i].player_id, POSITION_DEF)

\* the participants of a lineup
Placed(team) == {team[i].player_id : i \in 1..Len(team)}

\* C4: in MIN direction (build_lowest_team) the filter removes nobody for
\* their score, zero and negative scorers included, and such a candidate is
\* placed when it is the lowest unused scorer of its bucket: the lowest QB
\* of the candidates is in the QB slot, which is filled first.
C4_MinKeepsEveryScore ==
    (lineup # None /\ lineup[1].caller = "build_lowest_team") =>
        LET candidates == lineup[1].candidates
            qbs == {i \in 1..Len(candidates) :
                       /\ candidates[i].player_id \in DOMAIN positions_map
                       /\ HasPosition(candidates[i].player_id, POSITION_QB)}
        IN  /\ AvailablePlayers(candidates, None, 0) = candidates
            /\ (roster_template[1] = POSITION_QB /\ qbs # {}) =>
                    \E i \in qbs :
                        /\ \A k \in qbs : candidates[i].points <= candidates[k].points
                        /\ candidates[i].player_id \in Placed(lineup[1].team)

(***************************************************************************)
(* Properties of the Standings Accumulator                                 *)
(***************************************************************************)
\* the fold of calculate_weekly_standings_dict week by week: week 1 with
\* previous_standings=None, week w with the snapshot returned for week w-1
RECURSIVE FoldWeekly(_, _, _)
FoldWeekly(files, rmap, w) ==
    IF w = 1 THEN calculate_weekly_standings_dict(files, 1, rmap, None)
    ELSE LET p == FoldWeekly(files, rmap, w - 1)
         IN  IF ~p.ok THEN p
             ELSE calculate_weekly_standings_dict(files, w, rmap, Some(p.standings))

\* the snapshot an advance step starts from
PreviousSnapshot ==
    IF cached_standings = None THEN _initialize_standings(rosters_map)
    ELSE cached_standings[1]

\* a loop iteration that computed a new snapshot
Advanced ==
    /\ week' = week + 1
    /\ season'[week'].has_matchups
    /\ status' = "running"

RostersOf(snapshot) == {snapshot[i].roster_id : i \in 1..Len(snapshot)}

\* C1: folding calculate_weekly_standings_dict week by week gives the same
\* result as the one-shot call with previous_standings=None for every week N
\* (a KeyError on one path is a KeyError on the other), weeks without a
\* matchups file included, and the snapshot process_season caches is that
\* result.
C1_IncrementalEqualsFull ==
    week >= 1 =>
        LET full == calculate_weekly_standings_dict(season, week, rosters_map, None)
        IN  /\ FoldWeekly(season, rosters_map, week) = full
            /\ (status = "running" /\ cached_standings # None) =>
                    (full.ok /\ cached_standings[1] = full.standings)

C1_Witness ==
    /\ week = MaxWeek
    /\ status = "running"
    /\ cached_standings # None
    /\ \E w \in 1..(week - 1) : ~season[w].has_matchups
    /\ \E i \in 1..Len(cached_standings[1]) :
            /\ cached_standings[1][i].ties > 0
            /\ cached_standings[1][i].transaction_count > 0

\* C6: an advance step adds, for every two-entry group, each side's points
\* to its own pf and to the other side's pa, gives the higher scorer a win
\* and the lower scorer a loss, or both a tie on equal points, and changes
\* no other win, loss or tie counter.
C6_AdvanceScoresPairs ==
    [][Advanced =>
        LET old == PreviousSnapshot
            new == cached_standings'[1]
            ms == matchups'
            paired == {i \in 1..Len(ms) : Len(GroupOf(ms, ms[i].matchup_id)) = 2}
            Opp(i) == CHOOSE j \in paired : j # i /\ ms[j].matchup_id = ms[i].matchup_id
        IN  /\ RostersOf(new) = RostersOf(old)
            /\ \A i \in paired :
                LET me == ms[i]
                    opp == ms[Opp(i)]
                    before == Lookup(old, me.roster_id)
                    after == Lookup(new, me.roster_id)
                IN  /\ after.pf = before.pf + me.points
                    /\ after.pa = before.pa + opp.points
                    /\ after.wins = before.wins + (IF me.points > opp.points THEN 1 ELSE 0)
                    /\ after.losses = before.losses + (IF me.points < opp.points THEN 1 ELSE 0)
                    /\ after.ties = before.ties + (IF me.points = opp.points THEN 1 ELSE 0)
            /\ \A r \in RostersOf(old) :
                (\A i \in paired : ms[i].roster_id # r) =>
                    /\ Lookup(new, r).wins = Lookup(old, r).wins
                    /\ Lookup(new, r).losses = Lookup(old, r).losses
                    /\ Lookup(new, r).ties = Lookup(old, r).ties
    ]_vars

\* a step that scored a decided pair next to a roster that did not play it,
\* on top of a snapshot that already had games
C6_Witness ==
    /\ week = MaxWeek
    /\ status = "running"
    /\ season[week].has_matchups
    /\ Len(matchups) = 3
    /\ \E i, j \in 1..Len(matchups) :
            /\ i # j
            /\ Len(GroupOf(matchups, matchups[i].matchup_id)) = 2
            /\ matchups[j].matchup_id = matchups[i].matchup_id
            /\ matchups[i].points > matchups[j].points
            /\ Lookup(cached_standings[1], matchups[i].roster_id).wins = week
            /\ Lookup(cached_standings[1], matchups[j].roster_id).losses = week

\* a step that scored a pair on equal points
C6_WitnessTie ==
    /\ week = MaxWeek
    /\ status = "running"
    /\ Len(matchups) = 2
    /\ Len(GroupOf(matchups, matchups[1].matchup_id)) = 2
    /\ matchups[1].points = matchups[2].points
    /\ Lookup(cached_standings[1], matchups[1].roster_id).ties = 1

\* number of complete transactions of txs that list roster r
RECURSIVE CompleteCount(_, _)
CompleteCount(txs, r) ==
    IF txs = <<>> THEN 0
    ELSE (IF Head(txs).status = "complete" /\ r \in Range(Head(txs).roster_ids)
          THEN 1 ELSE 0) + CompleteCount(Tail(txs), r)

C7_WitnessOtherStatus ==
    /\ week = MaxWeek
    /\ status = "running"
    /\ Len(transactions) > 0
    /\ \A i \in 1..Len(transactions) : transactions[i].status # "complete"
    /\ \E r \in RostersOf(cached_standings[1]) :
            Lookup(cached_standings[1], r).transaction_count > 0

\* C8 as stated: every field of every roster's cumulative standing is
\* non-decreasing from one snapshot to the next.
C8_AllFieldsMonotonic ==
    [][Advanced =>
        \A r \in RostersOf(PreviousSnapshot) :
            LET before == Lookup(PreviousSnapshot, r)
                after == Lookup(cached_standings'[1], r)
            IN  /\ before.wins <= after.wins
                /\ before.losses <= after.losses
                /\ before.ties <= after.ties
                /\ before.transaction_count <= after.transaction_count
                /\ before.pf <= after.pf
                /\ before.pa <= after.pa
    ]_vars

\* C8 amended: wins, losses, ties and the transaction count never decrease
\* from one snapshot to the next; points-for and points-against never
\* decrease in a week in which no team total is negative.
C8_CountersMonotonic ==
    [][Advanced =>
        \A r \in RostersOf(PreviousSnapshot) :
            LET before == Lookup(PreviousSnapshot, r)
                after == Lookup(cached_standings'[1], r)
            IN  /\ before.wins <= after.wins
                /\ before.losses <= after.losses
                /\ before.ties <= after.ties
                /\ before.transaction_count <= after.transaction_count
                /\ (\A i \in 1..Len(matchups') : matchups'[i].points >= 0) =>
                        (before.pf <= after.pf /\ before.pa <= after.pa)
    ]_vars

\* a second snapshot, after a week of non-negative totals, in which counters
\* and points of a roster have grown twice
C8_Witness ==
    /\ week = MaxWeek
    /\ status = "running"
    /\ season[week].has_matchups
    /\ \A i \in 1..Len(matchups) : matchups[i].points >= 0
    /\ \E i \in 1..Len(cached_standings[1]) :
            /\ cached_standings[1][i].wins + cached_standings[1][i].losses
                + cached_standings[1][i].ties = MaxWeek
            /\ cached_standings[1][i].pf > 2 * 98000
            /\ cached_standings[1][i].transaction_count > 0

(***************************************************************************)
(* Properties of the ranking                                               *)
(***************************************************************************)
\* games played by a row
RowGames(row) == row.wins + row.losses + row.ties

\* win fraction wins / (wins + losses + ties) of row a against that of row
\* b, 0 for a row without games, compared exactly by cross-multiplication
FractionGreater(a, b) ==
    LET da == IF RowGames(a) > 0 THEN RowGames(a) ELSE 1
        db == IF RowGames(b) > 0 THEN RowGames(b) ELSE 1
    IN  a.wins * db > b.wins * da

FractionEqual(a, b) == ~FractionGreater(a, b) /\ ~FractionGreater(b, a)

\* C9: in the list standings_to_list returns, of two consecutive rows the
\* earlier has the greater win fraction, or the same win fraction and a
\* points-for that is not smaller.
C9_RankedByFractionThenPoints ==
    \A i \in 1..(Len(standings) - 1) :
        \/ FractionGreater(standings[i], standings[i + 1])
        \/ /\ FractionEqual(standings[i], standings[i + 1])
           /\ standings[i].pf >= standings[i + 1].pf

\* a ranking decided by the win fraction against the points (the row with
\* fewer points first) and, between two other rows, by the points alone
C9_Witness ==
    /\ Len(standings) = 3
    /\ FractionGreater(standings[1], standings[2])
    /\ standings[1].pf < standings[2].pf
    /\ FractionEqual(standings[2], standings[3])
    /\ RowGames(standings[2]) > 0
    /\ standings[2].pf > standings[3].pf

\* position of roster rid in the snapshot the ranking was made from
InputPosition(rid) == KeyIndex(cached_standings[1], rid)

\* C10: two rows with identical (win fraction, points-for) are ranked in
\* the relative order their rosters have in the input snapshot.
C10_RankingStable ==
    \A i, j \in 1..Len(standings) :
        (/\ i < j
         /\ standings[i].win_pct = standings[j].win_pct
         /\ standings[i].pf = standings[j].pf)
        => InputPosition(standings[i].roster_id) < InputPosition(standings[j].roster_id)

\* two rosters with games and the same key, ranked below another roster,
\* the one with the larger id first as in the snapshot
C10_Witness ==
    /\ Len(standings) = 3
    /\ standings[2].win_pct = standings[3].win_pct
    /\ standings[2].pf = standings[3].pf
    /\ RowGames(standings[2]) > 0
    /\ standings[2].roster_id > standings[3].roster_id
    /\ Lookup(cached_standings[1], standings[2].roster_id).pf
            # Lookup(cached_standings[1], standings[3].roster_id).pf

(***************************************************************************)
(* calculate_weekly_standings_dict on objects: a standings dict maps a     *)
(* roster_id to a stats dict, an object of the heap that                   *)
(* _process_week_data updates in place                                     *)
(***************************************************************************)
\* the stats dicts the dict d points to, in dict order
Deref(d, h) == [i \in 1..Len(d) |-> h[d[i].ref]]

\* the heap after the stats dicts of d were updated in place to contents
StoreAll(d, h, contents) ==
    [k \in 1..Len(h) |->
        IF \E i \in 1..Len(d) : d[i].ref = k
        THEN contents[CHOOSE i \in 1..Len(d) : d[i].ref = k]
        ELSE h[k]]

\* the contents of the dict when the scoring of group raises KeyError:
\* lines 66-67 have run when only roster_id2 is missing
ScoreGroupAtKeyError(snapshot, group) ==
    LET roster_id1 == group[1].roster_id
        points1 == group[1].points
        points2 == group[2].points
    IN  IF ~HasKey(snapshot, roster_id1) THEN snapshot
        ELSE LET i1 == KeyIndex(snapshot, roster_id1)
             IN  [[snapshot EXCEPT ![i1].pf = @ + points1] EXCEPT ![i1].pa = @ + points2]

\* the contents of the dict when the loop over the groups raises KeyError
RECURSIVE ScoreGroupsAtKeyError(_, _, _)
ScoreGroupsAtKeyError(snapshot, ms, ids) ==
    IF ids = <<>> THEN snapshot
    ELSE LET group == GroupOf(ms, Head(ids))
             r == ScoreGroup(snapshot, group)
         IN  IF ~r.ok THEN ScoreGroupAtKeyError(snapshot, group)
             ELSE ScoreGroupsAtKeyError(r.standings, ms, Tail(ids))

\* what _process_week_data has written to the dict it was given when it
\* returns or raises
WrittenByProcessWeekData(wk, snapshot) ==
    LET r == _process_week_data(wk, snapshot)
    IN  IF r.ok THEN r.standings
        ELSE ScoreGroupsAtKeyError(snapshot, wk.matchups, GroupIds(wk.matchups, {}))

\* a copy of the dict that keeps the stats dicts of previous_standings
CopyOnHeap_SameObjects(previous, h) == [standings |-> previous, heap |-> h]

\* the dict comprehension of lines 212-224: a new stats dict per roster
CopyOnHeap(previous, h) ==
    [standings |-> [i \in 1..Len(previous) |->
                       [roster_id |-> previous[i].roster_id, ref |-> Len(h) + i]],
     heap |-> h \o CopyStandings(Deref(previous, h))]

\* a caller holds the snapshot of week 1 and the season has its files
CallInit ==
    /\ rosters_map \in RosterMaps
    /\ \E wk \in SeasonWeekFiles :
        LET r == calculate_weekly_standings_dict(<<wk>>, 1, rosters_map, None)
        IN  /\ r.ok
            /\ season = <<wk>>
            /\ heap = r.standings
            /\ previous_dict = [i \in 1..Len(r.standings) |->
                                  [roster_id |-> r.standings[i].roster_id, ref |-> i]]
    /\ week = 1
    /\ returned_dict = None
    /\ status = "running"
    /\ cached_standings = None
    /\ matchups = <<>>
    /\ transactions = <<>>
    /\ standings = <<>>
    /\ final_standings = None
    /\ OtherIdle
    /\ StatsIdle
    /\ BatchIdle
    /\ PostIdle
    /\ ApiIdle
    /\ BracketIdle

\* calculate_weekly_standings_dict(season_dir, week + 1, rosters_map,
\* previous_standings) with previous_standings not None
CallWithPrevious ==
    /\ status = "running"
    /\ returned_dict = None
    /\ \E wk \in LastWeekFiles :
        LET c == CopyOnHeap(previous_dict, heap)
            given == Deref(c.standings, c.heap)
            r == _process_week_data(wk, given)
        IN  /\ season' = Append(season, wk)
            /\ week' = week + 1
            /\ heap' = StoreAll(c.standings, c.heap, WrittenByProcessWeekData(wk, given))
            /\ returned_dict' = IF r.ok THEN Some(c.standings) ELSE None
            /\ status' = IF r.ok THEN "running" ELSE "KeyError"
    /\ UNCHANGED <<rosters_map, previous_dict, cached_standings, matchups,
                   transactions, standings, final_standings>>
    /\ UNCHANGED otherVars
    /\ UNCHANGED statsVars
    /\ UNCHANGED batchVars
    /\ UNCHANGED postVars
    /\ UNCHANGED apiVars
    /\ UNCHANGED bracketVars

SpecCall == CallInit /\ [][CallWithPrevious]_vars

\* C11: a call with a previous snapshot leaves every roster's counters in
\* previous_standings as they were before the call, whether the call returns
\* or raises.
C11_PreviousUnchanged ==
    [][week' = week + 1 =>
          /\ previous_dict' = previous_dict
          /\ Deref(previous_dict', heap') = Deref(previous_dict, heap)
    ]_vars

\* the call returned a snapshot that differs from the previous one in wins,
\* points and transaction count, and is the one the value-level function gives
C11_Witness ==
    /\ returned_dict # None
    /\ Deref(returned_dict[1], heap)
         = calculate_weekly_standings_dict(season, week, rosters_map,
                                           Some(Deref(previous_dict, heap))).standings
    /\ \E i \in 1..Len(previous_dict) :
        LET before == heap[previous_dict[i].ref]
            after == heap[returned_dict[1][i].ref]
        IN  /\ after.wins = before.wins + 1
            /\ after.pf > before.pf
            /\ after.transaction_count = before.transaction_count + 1

\* the call raised KeyError after it had written to its copy
C11_WitnessRaised ==
    /\ status = "KeyError"
    /\ \E k \in 1..Len(heap) : heap[k].pf # 0 /\ heap[k].wins + heap[k].losses + heap[k].ties = 0

(***************************************************************************)
(* Groups that are not pairs                                               *)
(***************************************************************************)
\* the week's matchups hold no group of exactly two entries
NoPair(ms) == \A i \in 1..Len(ms) : Len(GroupOf(ms, ms[i].matchup_id)) # 2

\* C12: an advance step over a week whose matchup groups all have a
\* cardinality other than 2 (byes, single entries, three or more entries,
\* entries without matchup id) raises no error and leaves wins, losses,
\* ties, points-for and points-against of every roster unchanged.
C12_OtherGroupsExcluded ==
    [][(/\ status = "running"
        /\ week' = week + 1
        /\ season'[week'].has_matchups
        /\ NoPair(season'[week'].matchups)) =>
          /\ status' = "running"
          /\ cached_standings' # None
          /\ RostersOf(cached_standings'[1]) = RostersOf(PreviousSnapshot)
          /\ \A r \in RostersOf(PreviousSnapshot) :
                LET before == Lookup(PreviousSnapshot, r)
                    after == Lookup(cached_standings'[1], r)
                IN  /\ after.wins = before.wins
                    /\ after.losses = before.losses
                    /\ after.ties = before.ties
                    /\ after.pf = before.pf
                    /\ after.pa = before.pa
    ]_vars

\* a week with a group of three entries, one of a roster without owner,
\* processed after a week that was scored
C12_Witness ==
    /\ week = MaxWeek
    /\ status = "running"
    /\ season[week].has_matchups
    /\ matchups = season[week].matchups
    /\ Len(matchups) = 3
    /\ \A i \in 1..Len(matchups) : Len(GroupOf(matchups, matchups[i].matchup_id)) = 3
    /\ \E i \in 1..Len(matchups) : ~HasKey(cached_standings[1], matchups[i].roster_id)
    /\ \E i \in 1..Len(cached_standings[1]) : cached_standings[1][i].wins > 0

\* a week of byes only: two entries, none with a matchup id
C12_WitnessByes ==
    /\ week = MaxWeek
    /\ status = "running"
    /\ season[week].has_matchups
    /\ matchups = season[week].matchups
    /\ Len(matchups) = 2
    /\ \A i \in 1..Len(matchups) : matchups[i].matchup_id = 0
    /\ \E i \in 1..Len(cached_standings[1]) : cached_standings[1][i].pf # 0

(***************************************************************************)
(* Rosters missing from the roster identity map                            *)
(***************************************************************************)
\* C13: a roster id that appears in a week's matchups but is no key of
\* rosters_map never aborts the processing of the week: the loop iteration
\* over that week completes.
C13_UnmappedRosterNeverAborts ==
    [][(/\ status = "running"
        /\ week' = week + 1
        /\ season'[week'].has_matchups
        /\ \E i \in 1..Len(season'[week'].matchups) :
              season'[week'].matchups[i].roster_id \notin Range(rosters_map)) =>
          status' = "running"
    ]_vars

(***************************************************************************)
(* Cross-Season Statistics Engine: src/src/stats                           *)
(* A season directory is [year, complete, owners, weeks]: complete says    *)
(* that users.json and rosters.json exist, owners[r] is the owner_id of    *)
(* roster r in rosters.json ("" for a roster without owner), weeks are the *)
(* regular-season week directories.                                        *)
(***************************************************************************)
\* sorted() of a list of numbers
RECURSIVE InsertAsc(_, _)
InsertAsc(sorted, x) ==
    IF sorted = <<>> THEN <<x>>
    ELSE IF x < Head(sorted) THEN <<x>> \o sorted
         ELSE <<Head(sorted)>> \o InsertAsc(Tail(sorted), x)

RECURSIVE SortAsc(_)
SortAsc(xs) == IF xs = <<>> THEN <<>> ELSE InsertAsc(SortAsc(Tail(xs)), Head(xs))

\* twice statistics.median(scores) of a non-empty list (the median of an
\* even number of scores is the mean of the middle two)
Median2(scores) ==
    LET sorted == SortAsc(scores)
        n == Len(sorted)
    IN  IF n % 2 = 1 THEN 2 * sorted[(n + 1) \div 2]
        ELSE sorted[n \div 2] + sorted[n \div 2 + 1]

\* roster_to_user.get(roster_id); "" stands for None
UserOf(owners, roster_id) ==
    IF roster_id \in 1..Len(owners) THEN owners[roster_id] ELSE ""

\* the value the defaultdict of collect_all_season_data makes for a new key
NewUserStats(user_id) ==
    [user_id |-> user_id, seasons |-> {}, games |-> <<>>, all_scores |-> <<>>,
     weeks_above_median |-> 0, total_weeks |-> 0, lucky_wins |-> 0,
     unlucky_losses |-> 0, top_score_weeks |-> 0, low_score_weeks |-> 0]

HasUser(stats, user_id) == \E i \in 1..Len(stats) : stats[i].user_id = user_id
UserIndex(stats, user_id) == CHOOSE i \in 1..Len(stats) : stats[i].user_id = user_id

\* stats_by_user[user_id]: the defaultdict inserts a missing key
Touch(stats, user_id) ==
    IF HasUser(stats, user_id) THEN stats ELSE Append(stats, NewUserStats(user_id))

\* games_by_user[user_id].append(game) on the dict kept as the list of its items
AppendGame(games_by_user, user_id, game) ==
    IF \E i \in 1..Len(games_by_user) : games_by_user[i].user_id = user_id
    THEN [i \in 1..Len(games_by_user) |->
             IF games_by_user[i].user_id = user_id
             THEN [games_by_user[i] EXCEPT !.games = Append(@, game)]
             ELSE games_by_user[i]]
    ELSE Append(games_by_user, [user_id |-> user_id, games |-> <<game>>])

\* a game record in which equal points count as won
GameRecord_WinsTies(yr, wk, me, opp, opponent_user_id) ==
    [year |-> yr, week |-> wk, points |-> me.points,
     opponent_points |-> opp.points, won |-> me.points >= opp.points,
     margin |-> me.points - opp.points, opponent_user_id |-> opponent_user_id]

\* the game record of process_week_matchups for one side
GameRecord(yr, wk, me, opp, opponent_user_id) ==
    [year |-> yr, week |-> wk, points |-> me.points,
     opponent_points |-> opp.points, won |-> me.points > opp.points,
     margin |-> me.points - opp.points, opponent_user_id |-> opponent_user_id]

\* the loop over the groups in process_week_matchups; acc is
\* [games_by_user, all_scores]
RECURSIVE WeekGames(_, _, _, _, _, _)
WeekGames(acc, ms, ids, owners, yr, wk) ==
    IF ids = <<>> THEN acc
    ELSE
    LET group == GroupOf(ms, Head(ids))
        next ==
            IF Len(group) # 2 THEN acc
            ELSE LET team1 == group[1]
                     team2 == group[2]
                     user_id1 == UserOf(owners, team1.roster_id)
                     user_id2 == UserOf(owners, team2.roster_id)
                 IN  IF ~(team1.roster_id # 0 /\ team2.roster_id # 0) THEN acc
                     ELSE IF ~(user_id1 # "" /\ user_id2 # "") THEN acc
                     ELSE [games_by_user |->
                              AppendGame(
                                  AppendGame(acc.games_by_user, user_id1,
                                             GameRecord(yr, wk, team1, team2, user_id2)),
                                  user_id2, GameRecord(yr, wk, team2, team1, user_id1)),
                           all_scores |->
                              acc.all_scores \o <<team1.points, team2.points>>]
    IN  WeekGames(next, ms, Tail(ids), owners, yr, wk)

\* process_week_matchups: games by user and twice the weekly median
process_week_matchups(ms, owners, yr, wk) ==
    LET r == WeekGames([games_by_user |-> <<>>, all_scores |-> <<>>], ms,
                       GroupIds(ms, {}), owners, yr, wk)
    IN  [games_by_user |-> r.games_by_user,
         weekly_median2 |-> IF r.all_scores = <<>> THEN 0 ELSE Median2(r.all_scores)]

\* "for game in games" of lines 177-184 for one user
RECURSIVE AddGames(_, _, _, _)
AddGames(stats, user_id, games, weekly_median2) ==
    IF games = <<>> THEN stats
    ELSE LET game == Head(games)
             t == Touch(stats, user_id)
             i == UserIndex(t, user_id)
             u == t[i]
             v == [u EXCEPT !.games = Append(@, game),
                            !.all_scores = Append(@, game.points),
                            !.total_weeks = @ + 1,
                            !.weeks_above_median =
                                IF 2 * game.points > weekly_median2 THEN @ + 1 ELSE @]
         IN  AddGames([t EXCEPT ![i] = v], user_id, Tail(games), weekly_median2)

\* "for user_id, games in games_by_user.items()" of lines 176-184
RECURSIVE AddWeek(_, _, _)
AddWeek(stats, games_by_user, weekly_median2) ==
    IF games_by_user = <<>> THEN stats
    ELSE AddWeek(AddGames(stats, Head(games_by_user).user_id,
                          Head(games_by_user).games, weekly_median2),
                 Tail(games_by_user), weekly_median2)

\* "for roster in rosters_data" of lines 149-157: the owners of the season
RECURSIVE AddOwners(_, _, _)
AddOwners(stats, owners, yr) ==
    IF owners = <<>> THEN stats
    ELSE LET owner_id == Head(owners)
             t == IF owner_id = "" THEN stats
                  ELSE LET t1 == Touch(stats, owner_id)
                           i == UserIndex(t1, owner_id)
                       IN  [t1 EXCEPT ![i].seasons = @ \cup {yr}]
         IN  AddOwners(t, Tail(owners), yr)

\* "for week in range(1, playoff_week_start)" of collect_all_season_data
RECURSIVE CollectWeeks(_, _, _)
CollectWeeks(stats, dir, wk) ==
    IF wk > Len(dir.weeks) THEN stats
    ELSE IF ~dir.weeks[wk].has_matchups THEN CollectWeeks(stats, dir, wk + 1)
    ELSE LET r == process_week_matchups(dir.weeks[wk].matchups, dir.owners, dir.year, wk)
         IN  CollectWeeks(AddWeek(stats, r.games_by_user, r.weekly_median2), dir, wk + 1)

\* "for season_dir in season_dirs" of collect_all_season_data
RECURSIVE CollectSeasons(_, _)
CollectSeasons(stats, season_dirs) ==
    IF season_dirs = <<>> THEN stats
    ELSE LET dir == Head(season_dirs)
         IN  IF ~dir.complete THEN CollectSeasons(stats, Tail(season_dirs))
             ELSE CollectSeasons(
                      CollectWeeks(AddOwners(stats, dir.owners, dir.year), dir, 1),
                      Tail(season_dirs))

\* a listing of the season directories taken in the order iterdir gave
SortSeasonDirs_AsListed(listing) == listing

\* sorted([...]) of lines 109-112: the season directories by name
RECURSIVE SortSeasonDirs(_)
SortSeasonDirs(listing) ==
    IF listing = <<>> THEN <<>>
    ELSE LET rest == SortSeasonDirs(Tail(listing))
             before == SelectSeq(rest, LAMBDA d : d.year < Head(listing).year)
             after == SelectSeq(rest, LAMBDA d : ~(d.year < Head(listing).year))
         IN  before \o <<Head(listing)>> \o after

\* collect_all_season_data on the listing iterdir returned
collect_all_season_data(listing) == CollectSeasons(<<>>, SortSeasonDirs(listing))

\* user_scores[user_id] = (points, won) on the dict kept as the list of its items
PutUserScore(user_scores, user_id, points, won) ==
    LET item == [user_id |-> user_id, points |-> points, won |-> won]
    IN  IF \E i \in 1..Len(user_scores) : user_scores[i].user_id = user_id
        THEN [i \in 1..Len(user_scores) |->
                 IF user_scores[i].user_id = user_id THEN item ELSE user_scores[i]]
        ELSE Append(user_scores, item)

\* the loop over the groups of lines 168-197; acc is [user_scores, all_week_scores]
RECURSIVE WeekScores(_, _, _, _)
WeekScores(acc, ms, ids, owners) ==
    IF ids = <<>> THEN acc
    ELSE
    LET group == GroupOf(ms, Head(ids))
        next ==
            IF Len(group) # 2 THEN acc
            ELSE LET team1 == group[1]
                     team2 == group[2]
                     user_id1 == UserOf(owners, team1.roster_id)
                     user_id2 == UserOf(owners, team2.roster_id)
                 IN  IF ~(team1.roster_id # 0 /\ team2.roster_id # 0) THEN acc
                     ELSE IF ~(user_id1 # "" /\ user_id2 # "") THEN acc
                     ELSE [user_scores |->
                              PutUserScore(
                                  PutUserScore(acc.user_scores, user_id1, team1.points,
                                               team1.points > team2.points),
                                  user_id2, team2.points, team2.points > team1.points),
                           all_week_scores |->
                              acc.all_week_scores \o <<team1.points, team2.points>>]
    IN  WeekScores(next, ms, Tail(ids), owners)

\* max() and min() of a non-empty list of numbers
MaxOf(xs) == CHOOSE x \in Range(xs) : \A y \in Range(xs) : y <= x
MinOf(xs) == CHOOSE x \in Range(xs) : \A y \in Range(xs) : x <= y

\* a classification that counts every win as lucky
ClassifyUser_AnyWin(u, points, won, weekly_median2, week_max, week_min) ==
    [u EXCEPT
        !.lucky_wins = IF won THEN @ + 1 ELSE @,
        !.unlucky_losses = IF ~won /\ 2 * points > weekly_median2 THEN @ + 1 ELSE @,
        !.top_score_weeks = IF points = week_max THEN @ + 1 ELSE @,
        !.low_score_weeks = IF points = week_min THEN @ + 1 ELSE @]

\* lines 211-225: the four counters of one user for one week
ClassifyUser(u, points, won, weekly_median2, week_max, week_min) ==
    [u EXCEPT
        !.lucky_wins = IF won /\ 2 * points < weekly_median2 THEN @ + 1 ELSE @,
        !.unlucky_losses = IF ~won /\ 2 * points > weekly_median2 THEN @ + 1 ELSE @,
        !.top_score_weeks = IF points = week_max THEN @ + 1 ELSE @,
        !.low_score_weeks = IF points = week_min THEN @ + 1 ELSE @]

\* "for user_id, (points, won, game_data) in user_scores.items()" of lines 207-225
RECURSIVE ClassifyWeek(_, _, _, _, _)
ClassifyWeek(stats, user_scores, weekly_median2, week_max, week_min) ==
    IF user_scores = <<>> THEN stats
    ELSE LET item == Head(user_scores)
             t == IF ~HasUser(stats, item.user_id) THEN stats
                  ELSE LET i == UserIndex(stats, item.user_id)
                       IN  [stats EXCEPT ![i] =
                               ClassifyUser(@, item.points, item.won,
                                            weekly_median2, week_max, week_min)]
         IN  ClassifyWeek(t, Tail(user_scores), weekly_median2, week_max, week_min)

\* "for week in range(1, playoff_week_start)" of calculate_lucky_unlucky_and_extremes
RECURSIVE ClassifyWeeks(_, _, _)
ClassifyWeeks(stats, dir, wk) ==
    IF wk > Len(dir.weeks) THEN stats
    ELSE IF ~dir.weeks[wk].has_matchups THEN ClassifyWeeks(stats, dir, wk + 1)
    ELSE LET r == WeekScores([user_scores |-> <<>>, all_week_scores |-> <<>>],
                             dir.weeks[wk].matchups,
                             GroupIds(dir.weeks[wk].matchups, {}), dir.owners)
         IN  IF r.all_week_scores = <<>> THEN ClassifyWeeks(stats, dir, wk + 1)
             ELSE ClassifyWeeks(
                      ClassifyWeek(stats, r.user_scores, Median2(r.all_week_scores),
                                   MaxOf(r.all_week_scores), MinOf(r.all_week_scores)),
                      dir, wk + 1)

\* "for season_dir in season_dirs" of calculate_lucky_unlucky_and_extremes
RECURSIVE ClassifySeasons(_, _)
ClassifySeasons(stats, season_dirs) ==
    IF season_dirs = <<>> THEN stats
    ELSE LET dir == Head(season_dirs)
         IN  IF ~dir.complete THEN ClassifySeasons(stats, Tail(season_dirs))
             ELSE ClassifySeasons(ClassifyWeeks(stats, dir, 1), Tail(season_dirs))

\* calculate_lucky_unlucky_and_extremes on the listing iterdir returned
calculate_lucky_unlucky_and_extremes(stats, listing) ==
    ClassifySeasons(stats, SortSeasonDirs(listing))

\* sum(f(g) for g in games)
RECURSIVE SumSeq(_)
SumSeq(xs) == IF xs = <<>> THEN 0 ELSE Head(xs) + SumSeq(Tail(xs))

\* sums that count as losses only the games with fewer points than the
\* opponent
SumGames_LossesAreDefeats(games, what) ==
    SumSeq([i \in 1..Len(games) |->
              CASE what = "wins" -> IF games[i].won THEN 1 ELSE 0
                [] what = "losses" ->
                      IF games[i].points < games[i].opponent_points THEN 1 ELSE 0
                [] what = "points" -> games[i].points
                [] OTHER -> games[i].opponent_points])

\* the sums of calculate_manager_stats over the games of a manager
SumGames(games, what) ==
    SumSeq([i \in 1..Len(games) |->
              CASE what = "wins" -> IF games[i].won THEN 1 ELSE 0
                [] what = "losses" -> IF ~games[i].won THEN 1 ELSE 0
                [] what = "points" -> games[i].points
                [] OTHER -> games[i].opponent_points])

\* max(games, key=lambda g: g['points']): the first game with the most points
HighScoreGame(games) ==
    LET i == CHOOSE k \in 1..Len(games) :
                /\ \A j \in 1..Len(games) : games[j].points <= games[k].points
                /\ \A j \in 1..(k - 1) : games[j].points < games[k].points
    IN  games[i]

\* a calculate_manager_stats that gives a row to a manager without games
calculate_manager_stats_EmptyRow(u) ==
    LET games == u.games
    IN  Some([user_id |-> u.user_id,
              seasons |-> Cardinality(u.seasons),
              games_played |-> Len(games),
              wins |-> SumGames(games, "wins"),
              losses |-> SumGames(games, "losses"),
              total_pf |-> SumGames(games, "points"),
              total_pa |-> SumGames(games, "opponent_points"),
              high_score |-> IF games = <<>> THEN <<0, 0, 0>>
                             ELSE <<HighScoreGame(games).points, HighScoreGame(games).year,
                                    HighScoreGame(games).week>>])

\* calculate_manager_stats: None for a manager without games, else the row
\* (win_pct is wins / games_played * 100 and is kept as that fraction)
calculate_manager_stats(u) ==
    LET games == u.games
    IN  IF games = <<>> THEN None
        ELSE Some([user_id |-> u.user_id,
                   seasons |-> Cardinality(u.seasons),
                   games_played |-> Len(games),
                   wins |-> SumGames(games, "wins"),
                   losses |-> SumGames(games, "losses"),
                   total_pf |-> SumGames(games, "points"),
                   total_pa |-> SumGames(games, "opponent_points"),
                   high_score |-> <<HighScoreGame(games).points, HighScoreGame(games).year,
                                    HighScoreGame(games).week>>])

\* lines 38-55 of generate_all_time_standings_csv: the rows of the managers
\* for whom calculate_manager_stats returned a row
RECURSIVE ManagerRows(_)
ManagerRows(stats) ==
    IF stats = <<>> THEN <<>>
    ELSE LET u == Head(stats)
             r == calculate_manager_stats(u)
         IN  IF r = None THEN ManagerRows(Tail(stats))
             ELSE <<[user_id |-> r[1].user_id, seasons |-> r[1].seasons,
                     games_played |-> r[1].games_played, wins |-> r[1].wins,
                     losses |-> r[1].losses, total_pf |-> r[1].total_pf,
                     total_pa |-> r[1].total_pa, high_score |-> r[1].high_score,
                     lucky_wins |-> u.lucky_wins, unlucky_losses |-> u.unlucky_losses,
                     top_score_weeks |-> u.top_score_weeks,
                     low_score_weeks |-> u.low_score_weeks]>>
                  \o ManagerRows(Tail(stats))

\* (win_pct, total_pf) of a is less than that of b; games_played > 0 in rows
ManagerKeyLess(a, b) ==
    \/ a.wins * b.games_played < b.wins * a.games_played
    \/ /\ a.wins * b.games_played = b.wins * a.games_played
       /\ a.total_pf < b.total_pf

\* manager_stats.sort(key=..., reverse=True) of line 58, a stable sort
RECURSIVE InsertManager(_, _)
InsertManager(sorted, row) ==
    IF sorted = <<>> THEN <<row>>
    ELSE IF ManagerKeyLess(Head(sorted), row) THEN <<row>> \o sorted
         ELSE <<Head(sorted)>> \o InsertManager(Tail(sorted), row)

RECURSIVE SortManagers(_)
SortManagers(rows) ==
    IF rows = <<>> THEN <<>>
    ELSE InsertManager(SortManagers(SubSeq(rows, 1, Len(rows) - 1)), rows[Len(rows)])

\* h2h_records[user_id][opponent_id][k] += 1 on the nested dict kept as the
\* list of its (user_id, opponent_id) items
BumpRecord(records, user_id, opponent_id, won) ==
    IF \E i \in 1..Len(records) :
          records[i].user_id = user_id /\ records[i].opponent_id = opponent_id
    THEN [i \in 1..Len(records) |->
             IF records[i].user_id = user_id /\ records[i].opponent_id = opponent_id
             THEN IF won THEN [records[i] EXCEPT !.wins = @ + 1]
                  ELSE [records[i] EXCEPT !.losses = @ + 1]
             ELSE records[i]]
    ELSE Append(records, [user_id |-> user_id, opponent_id |-> opponent_id,
                          wins |-> IF won THEN 1 ELSE 0,
                          losses |-> IF won THEN 0 ELSE 1])

\* a scan that records the wins only
RECURSIVE ScanGames_WinsOnly(_, _, _)
ScanGames_WinsOnly(records, user_id, games) ==
    IF games = <<>> THEN records
    ELSE LET game == Head(games)
             r == IF game.opponent_user_id = "" \/ ~game.won THEN records
                  ELSE BumpRecord(records, user_id, game.opponent_user_id, game.won)
         IN  ScanGames_WinsOnly(r, user_id, Tail(games))

\* "for game in user_data.get('games', [])" of lines 17-23
RECURSIVE ScanGames(_, _, _)
ScanGames(records, user_id, games) ==
    IF games = <<>> THEN records
    ELSE LET game == Head(games)
             r == IF game.opponent_user_id = "" THEN records
                  ELSE BumpRecord(records, user_id, game.opponent_user_id, game.won)
         IN  ScanGames(r, user_id, Tail(games))

\* build_head_to_head_records
RECURSIVE ScanUsers(_, _)
ScanUsers(records, stats) ==
    IF stats = <<>> THEN records
    ELSE ScanUsers(ScanGames(records, Head(stats).user_id, Head(stats).games),
                   Tail(stats))

build_head_to_head_records(stats) == ScanUsers(<<>>, stats)

(***************************************************************************)
(* The season directories the engine reads                                 *)
(***************************************************************************)
\* regular-season weeks of a season directory (playoff_week_start - 1)
MaxStatsWeek == 1

\* the names of the season directories
StatsYears == <<2023, 2024>>

\* owner_id of rosters 1..4 in rosters.json; "" is a roster without owner
OwnerLists == {<<"A", "B", "C", "D">>, <<"B", "A", "D", "">>}

\* weekly team totals, in thousandths of a point
StatsPointValues == {40500, 50250, 90000}

\* matchup_id of rosters 1..4: two pairs, a pair next to a bye and a single
\* entry, a group of three next to a single entry
StatsMatchupIds == {<<1, 1, 2, 2>>, <<1, 2, 2, 1>>, <<1, 1, 0, 2>>, <<1, 1, 1, 2>>}

StatsMatchups(ids, points) ==
    [r \in 1..4 |-> [matchup_id |-> ids[r], roster_id |-> r, points |-> points[r]]]

StatsWeek(ms) == [has_matchups |-> TRUE, matchups |-> ms]

NoStatsWeek == [has_matchups |-> FALSE, matchups |-> <<>>]

\* weeks before the last one of a season
EarlyStatsWeeks ==
    {NoStatsWeek,
     StatsWeek(StatsMatchups(<<1, 1, 2, 2>>, <<90000, 50250, 50250, 50250>>)),
     StatsWeek(StatsMatchups(<<1, 2, 2, 1>>, <<50250, 90000, 90000, 40500>>))}

\* the last week of the last season
LastStatsWeeks ==
    {NoStatsWeek}
    \cup {StatsWeek(StatsMatchups(ids, points)) :
             ids \in StatsMatchupIds, points \in [1..4 -> StatsPointValues]}

StatsWeekLists(last) ==
    {Append(early, wk) : early \in [1..(MaxStatsWeek - 1) -> EarlyStatsWeeks], wk \in last}

\* the season directories: the first may lack users.json or rosters.json
SeasonDirs(yr) ==
    IF yr = StatsYears[Len(StatsYears)]
    THEN [year : {yr}, complete : {TRUE}, owners : OwnerLists,
          weeks : StatsWeekLists(LastStatsWeeks)]
    ELSE [year : {yr}, complete : {TRUE}, owners : OwnerLists,
          weeks : StatsWeekLists(EarlyStatsWeeks)]
         \cup [year : {yr}, complete : {FALSE}, owners : {<<"A", "B", "C", "D">>},
               weeks : StatsWeekLists({NoStatsWeek})]

\* the orders in which iterdir can list the directories
Listings(dirs) ==
    {[i \in 1..Len(dirs) |-> dirs[f[i]]] :
        f \in {g \in [1..Len(dirs) -> 1..Len(dirs)] :
                  \A i, j \in 1..Len(dirs) : i # j => g[i] # g[j]}}

(***************************************************************************)
(* generate_all_time_standings_csv and generate_head_to_head_csv           *)
(***************************************************************************)
StatsInit ==
    /\ unmunged \in {<<a, b>> : a \in SeasonDirs(StatsYears[1]), b \in SeasonDirs(StatsYears[2])}
    /\ stats_by_user = <<>>
    /\ manager_stats = None
    /\ h2h_records = None
    /\ first_manager_stats = None
    /\ stats_pc = "start"
    /\ SeasonIdle
    /\ OtherIdle
    /\ CallIdle
    /\ BatchIdle
    /\ PostIdle
    /\ ApiIdle
    /\ BracketIdle

StatsFrame ==
    /\ UNCHANGED unmunged
    /\ UNCHANGED seasonVars
    /\ UNCHANGED otherVars
    /\ UNCHANGED callVars
    /\ UNCHANGED batchVars
    /\ UNCHANGED postVars
    /\ UNCHANGED apiVars
    /\ UNCHANGED bracketVars

\* line 30 / line 133: collect_all_season_data(unmunged_dir)
CollectAllSeasonData ==
    /\ stats_pc = "start"
    /\ \E listing \in Listings(unmunged) :
          stats_by_user' = collect_all_season_data(listing)
    /\ stats_pc' = "collected"
    /\ UNCHANGED <<manager_stats, h2h_records, first_manager_stats>>
    /\ StatsFrame

\* line 33: calculate_lucky_unlucky_and_extremes(stats_by_user, unmunged_dir)
CalculateLuckyUnluckyAndExtremes ==
    /\ stats_pc = "collected"
    /\ \E listing \in Listings(unmunged) :
          stats_by_user' = calculate_lucky_unlucky_and_extremes(stats_by_user, listing)
    /\ stats_pc' = "classified"
    /\ UNCHANGED <<manager_stats, h2h_records, first_manager_stats>>
    /\ StatsFrame

\* lines 36-58: the manager rows, ranked
RankManagers ==
    /\ stats_pc = "classified"
    /\ manager_stats' = Some(SortManagers(ManagerRows(stats_by_user)))
    /\ stats_pc' = "ranked"
    /\ UNCHANGED <<stats_by_user, h2h_records, first_manager_stats>>
    /\ StatsFrame

\* line 136 of generate_head_to_head_csv: build_head_to_head_records
BuildHeadToHeadRecords ==
    /\ stats_pc = "collected"
    /\ h2h_records' = Some(build_head_to_head_records(stats_by_user))
    /\ stats_pc' = "h2h"
    /\ UNCHANGED <<stats_by_user, manager_stats, first_manager_stats>>
    /\ StatsFrame

\* the engine is run again over the same directories
RunAgain ==
    /\ stats_pc = "ranked"
    /\ first_manager_stats = None
    /\ first_manager_stats' = manager_stats
    /\ manager_stats' = None
    /\ stats_by_user' = <<>>
    /\ stats_pc' = "start"
    /\ UNCHANGED h2h_records
    /\ StatsFrame

StatsNext ==
    \/ CollectAllSeasonData
    \/ CalculateLuckyUnluckyAndExtremes
    \/ RankManagers
    \/ BuildHeadToHeadRecords
    \/ RunAgain

SpecStats == StatsInit /\ [][StatsNext]_vars

(***************************************************************************)
(* Properties of the Cross-Season Statistics Engine                        *)
(***************************************************************************)
\* C14: a participant with no recorded games gets no row from
\* calculate_manager_stats and the ranked output holds exactly one row for
\* every participant with at least one game, and none for the others.
C14_NoRowWithoutGames ==
    stats_pc = "ranked" =>
        /\ \A i \in 1..Len(stats_by_user) :
              (stats_by_user[i].games = <<>>) <=>
                  (calculate_manager_stats(stats_by_user[i]) = None)
        /\ \A i \in 1..Len(stats_by_user) :
              Cardinality({k \in 1..Len(manager_stats[1]) :
                              manager_stats[1][k].user_id = stats_by_user[i].user_id})
                = IF stats_by_user[i].games = <<>> THEN 0 ELSE 1
        /\ \A k \in 1..Len(manager_stats[1]) :
              /\ manager_stats[1][k].games_played > 0
              /\ HasUser(stats_by_user, manager_stats[1][k].user_id)

\* ranked output next to a participant who owned a roster and played no game
C14_Witness ==
    /\ stats_pc = "ranked"
    /\ Len(manager_stats[1]) >= 2
    /\ \E i \in 1..Len(stats_by_user) :
          stats_by_user[i].games = <<>> /\ stats_by_user[i].seasons # {}

\* the entry of user a against user b in the head-to-head records
H2HEntries(a, b) ==
    {i \in 1..Len(h2h_records[1]) :
        h2h_records[1][i].user_id = a /\ h2h_records[1][i].opponent_id = b}

\* C16: for every pair A, B of the head-to-head records the number of games
\* agrees from both sides: wins[A][B] + losses[A][B] = wins[B][A] + losses[B][A].
C16_GameCountSymmetric ==
    h2h_records # None =>
        \A i \in 1..Len(h2h_records[1]) :
            LET e == h2h_records[1][i]
            IN  /\ H2HEntries(e.user_id, e.opponent_id) = {i}
                /\ \E j \in H2HEntries(e.opponent_id, e.user_id) :
                      e.wins + e.losses
                        = h2h_records[1][j].wins + h2h_records[1][j].losses

\* two participants who met in both seasons, each side with a win
C16_Witness ==
    /\ h2h_records # None
    /\ \E i \in 1..Len(h2h_records[1]) :
          /\ h2h_records[1][i].wins >= 1
          /\ h2h_records[1][i].losses >= 1

\* C17 as stated: wins[A][B] = losses[B][A] for every pair, tied games
\* included.
C17_WinIsOpponentsLoss ==
    h2h_records # None =>
        \A i, j \in 1..Len(h2h_records[1]) :
            (/\ h2h_records[1][i].user_id = h2h_records[1][j].opponent_id
             /\ h2h_records[1][i].opponent_id = h2h_records[1][j].user_id) =>
                h2h_records[1][i].wins = h2h_records[1][j].losses

\* the games of the log of user a against user b that ended on equal points
TiedGames(a, b) ==
    LET games == stats_by_user[UserIndex(stats_by_user, a)].games
    IN  Cardinality({k \in 1..Len(games) :
                        games[k].opponent_user_id = b /\ games[k].margin = 0})

\* C17 amended: a decided game credits a win to exactly one side and a loss
\* to the other, a tied game is a loss for both sides, so
\* wins[A][B] = losses[B][A] - (tied games between A and B) for every pair.
C17_WinIsOpponentsLossButTies ==
    h2h_records # None =>
        \A i, j \in 1..Len(h2h_records[1]) :
            (/\ h2h_records[1][i].user_id = h2h_records[1][j].opponent_id
             /\ h2h_records[1][i].opponent_id = h2h_records[1][j].user_id) =>
                h2h_records[1][i].wins
                  = h2h_records[1][j].losses
                      - TiedGames(h2h_records[1][i].user_id, h2h_records[1][i].opponent_id)

\* a pair with a decided game and a tied game
C17_Witness ==
    /\ h2h_records # None
    /\ \E i \in 1..Len(h2h_records[1]) :
          /\ h2h_records[1][i].wins = 1
          /\ h2h_records[1][i].losses = 1
          /\ TiedGames(h2h_records[1][i].user_id, h2h_records[1][i].opponent_id) = 1

\* the scores of the games of week wk of season yr, over all game logs
ScoresOfWeek(yr, wk) ==
    LET Of(i) == SelectSeq(stats_by_user[i].games,
                           LAMBDA g : g.year = yr /\ g.week = wk)
        RECURSIVE Cat(_)
        Cat(i) == IF i = 0 THEN <<>>
                  ELSE Cat(i - 1) \o [k \in 1..Len(Of(i)) |-> Of(i)[k].points]
    IN  Cat(Len(stats_by_user))

\* the number of games of the log that satisfy P
CountGames(games, P(_)) == Cardinality({k \in 1..Len(games) : P(games[k])})

FirstSeen(user_id) == UserIndex(stats_by_user, user_id)

\* C19: a second run over the same directories gives the same ranked manager
\* rows in the same order as the first, whatever order the directories are
\* listed in: sorted by win percentage descending, then total points-for
\* descending, equal keys in first-seen order.
C19_RunsAgree ==
    (stats_pc = "ranked" /\ first_manager_stats # None) =>
        /\ manager_stats = first_manager_stats
        /\ \A k \in 1..(Len(manager_stats[1]) - 1) :
              LET a == manager_stats[1][k]
                  b == manager_stats[1][k + 1]
              IN  \/ a.wins * b.games_played > b.wins * a.games_played
                  \/ /\ a.wins * b.games_played = b.wins * a.games_played
                     /\ \/ a.total_pf > b.total_pf
                        \/ /\ a.total_pf = b.total_pf
                           /\ FirstSeen(a.user_id) < FirstSeen(b.user_id)

\* the second run ranked four managers, two of them with equal keys, from
\* two seasons that list the owners in different orders
C19_Witness ==
    /\ stats_pc = "ranked"
    /\ first_manager_stats # None
    /\ Len(manager_stats[1]) = 4
    /\ unmunged[1].complete
    /\ unmunged[1].owners # unmunged[2].owners
    /\ \E k \in 1..3 :
          /\ manager_stats[1][k].wins * manager_stats[1][k + 1].games_played
               = manager_stats[1][k + 1].wins * manager_stats[1][k].games_played
          /\ manager_stats[1][k].total_pf = manager_stats[1][k + 1].total_pf

(***************************************************************************)
(* Batch run over all seasons: process_data of src/src/main.py             *)
(* A season directory of the batch is [year, has_users, rosters_map,       *)
(* weeks]: has_users says that users.json exists.                          *)
(***************************************************************************)
\* the regular-season loop of process_season as a function of the files:
\* the cache after the last week, or the KeyError of a week
RECURSIVE RegularSeasonLoop(_, _, _, _)
RegularSeasonLoop(files, w, rmap, cached) ==
    IF w > Len(files) THEN [ok |-> TRUE, cached |-> cached]
    ELSE IF ~files[w].has_matchups THEN RegularSeasonLoop(files, w + 1, rmap, cached)
    ELSE LET r == calculate_weekly_standings_dict(files, w, rmap, cached)
         IN  IF ~r.ok THEN [ok |-> FALSE, cached |-> cached]
             ELSE RegularSeasonLoop(files, w + 1, rmap, Some(r.standings))

\* the way process_season(year, ...) ends: "processed", or the exception
\* that leaves it (load_users_map opens users.json without a check)
process_season(dir) ==
    IF ~dir.has_users THEN "FileNotFoundError"
    ELSE IF RegularSeasonLoop(dir.weeks, 1, dir.rosters_map, None).ok THEN "processed"
    ELSE "KeyError"

\* a batch loop without the try/except around process_season
AfterSeason_Unhandled(outcome) == IF outcome = "processed" THEN "running" ELSE "aborted"

\* lines 94-98: an exception of process_season is printed and the loop
\* continues with the next season
AfterSeason(outcome) == "running"

\* sorted(names, reverse=True) of lines 70-74
RECURSIVE SortYearsDesc(_)
SortYearsDesc(years) ==
    IF years = <<>> THEN <<>>
    ELSE LET rest == SortYearsDesc(Tail(years))
             before == SelectSeq(rest, LAMBDA y : y > Head(years))
             after == SelectSeq(rest, LAMBDA y : ~(y > Head(years)))
         IN  before \o <<Head(years)>> \o after

\* the names of the season directories
BatchYears == <<2022, 2023, 2024>>

\* the week files of a season of the batch: no file or one pair of rosters
BatchWeekFiles ==
    {f \in SeasonWeekFiles :
        \A i \in 1..Len(f.matchups) : f.matchups[i].points = 98250}

BatchSeasonDirs(yr) ==
    [year : {yr}, has_users : {TRUE}, rosters_map : RosterMaps,
     weeks : [1..1 -> BatchWeekFiles]]
    \cup [year : {yr}, has_users : {FALSE}, rosters_map : {<<>>},
          weeks : [1..1 -> {NoWeekFile}]]

BatchDirOf(yr) == batch_dirs[CHOOSE i \in 1..Len(batch_dirs) : batch_dirs[i].year = yr]

BatchInit ==
    /\ batch_dirs \in {<<a, b, c>> : a \in BatchSeasonDirs(BatchYears[1]),
                                     b \in BatchSeasonDirs(BatchYears[2]),
                                     c \in BatchSeasonDirs(BatchYears[3])}
    /\ available_seasons = <<>>
    /\ batch_log = <<>>
    /\ batch_pc = "menu"
    /\ SeasonIdle
    /\ OtherIdle
    /\ CallIdle
    /\ StatsIdle
    /\ PostIdle
    /\ ApiIdle
    /\ BracketIdle

BatchFrame ==
    /\ UNCHANGED batch_dirs
    /\ UNCHANGED seasonVars
    /\ UNCHANGED otherVars
    /\ UNCHANGED callVars
    /\ UNCHANGED statsVars
    /\ UNCHANGED postVars
    /\ UNCHANGED apiVars
    /\ UNCHANGED bracketVars

\* lines 70-88: the available seasons, and the choice "all"
ChooseAllSeasons ==
    /\ batch_pc = "menu"
    /\ \E listing \in Listings(batch_dirs) :
          available_seasons' =
              SortYearsDesc([i \in 1..Len(listing) |-> listing[i].year])
    /\ batch_pc' = "running"
    /\ UNCHANGED batch_log
    /\ BatchFrame

\* one iteration of "for year in available_seasons"
ProcessNextSeason ==
    /\ batch_pc = "running"
    /\ Len(batch_log) < Len(available_seasons)
    /\ LET year == available_seasons[Len(batch_log) + 1]
           outcome == process_season(BatchDirOf(year))
       IN  /\ batch_log' = Append(batch_log, [year |-> year, outcome |-> outcome])
           /\ batch_pc' = AfterSeason(outcome)
    /\ UNCHANGED available_seasons
    /\ BatchFrame

\* line 99: "Completed processing all seasons!"
CompleteBatch ==
    /\ batch_pc = "running"
    /\ Len(batch_log) = Len(available_seasons)
    /\ batch_pc' = "completed"
    /\ UNCHANGED <<available_seasons, batch_log>>
    /\ BatchFrame

BatchNext == ChooseAllSeasons \/ ProcessNextSeason \/ CompleteBatch

SpecBatch == BatchInit /\ [][BatchNext]_vars

\* C15: a fatal error in one season of a batch run stops only that season:
\* the batch never stops early, and when it completes every available
\* season was handled once, in batch order (newest first), each with the
\* outcome of its own data.
C15_ErrorStopsOneSeason ==
    /\ batch_pc # "aborted"
    /\ batch_pc # "menu" =>
          /\ Len(batch_log) <= Len(available_seasons)
          /\ \A i \in 1..Len(batch_log) :
                /\ batch_log[i].year = available_seasons[i]
                /\ batch_log[i].outcome = process_season(BatchDirOf(available_seasons[i]))
    /\ batch_pc = "completed" =>
          /\ Len(batch_log) = Len(batch_dirs)
          /\ \A i \in 1..Len(batch_dirs) :
                \E k \in 1..Len(batch_log) : batch_log[k].year = batch_dirs[i].year
          /\ \A i \in 1..(Len(batch_log) - 1) : batch_log[i].year > batch_log[i + 1].year

\* a completed batch whose first season raised KeyError, whose second has
\* no users.json and whose last was processed
C15_Witness ==
    /\ batch_pc = "completed"
    /\ batch_log[1].outcome = "KeyError"
    /\ batch_log[2].outcome = "FileNotFoundError"
    /\ batch_log[3].outcome = "processed"
    /\ BatchDirOf(batch_log[3].year).weeks[1].has_matchups

(***************************************************************************)
(* The whole of process_season: the regular-season loop, the final         *)
(* standings and the postseason loop                                       *)
(***************************************************************************)
\* weeks range(playoff_week_start, last_scored_leg + 1) of the postseason
MaxPostWeek == 1

\* the week files of a whole season: no file, or two rosters against each
\* other with one trade
RegularWeekFiles ==
    {f \in SeasonWeekFiles :
        f.has_matchups =>
            /\ f.matchups[1].points = 98250
            /\ f.matchups[2].points \in {98250, 98252}
            /\ \A i \in 1..Len(f.transactions) : f.transactions[i] = f.transactions[1]}

\* the week files of the postseason
PostWeekFiles ==
    {f \in RegularWeekFiles : f.has_matchups => f.matchups[2].points = 98252}

\* a postseason loop that accumulated standings as the regular-season loop
PostseasonSnapshot_Accumulates(files, w, rmap, cached) ==
    LET r == calculate_weekly_standings_dict(files, w, rmap, cached)
    IN  IF r.ok THEN Some(r.standings) ELSE cached

\* cached_standings after a postseason week: lines 251-290 neither call
\* calculate_weekly_standings_dict nor assign cached_standings
PostseasonSnapshot(files, w, rmap, cached) == cached

\* generate_weekly_postseason_recap: the recap of the matchups alone
generate_weekly_postseason_recap(ms, ts, standings_arg) ==
    [matchups |-> process_matchups(ms)]

WholeSeasonInit ==
    /\ SeasonInit
    /\ OtherIdle
    /\ CallIdle
    /\ StatsIdle
    /\ BatchIdle
    /\ ApiIdle
    /\ BracketIdle
    /\ postseason_weeks \in 0..MaxPostWeek
    /\ postseason = <<>>

SeasonFrame ==
    /\ UNCHANGED otherVars
    /\ UNCHANGED callVars
    /\ UNCHANGED statsVars
    /\ UNCHANGED batchVars
    /\ UNCHANGED apiVars
    /\ UNCHANGED bracketVars

\* one iteration of "for week in regular_season_weeks"
ProcessRegularWeek ==
    /\ status = "running"
    /\ week < MaxWeek
    /\ \E wk \in RegularWeekFiles : LoopBody(wk)
    /\ UNCHANGED postVars
    /\ SeasonFrame

\* one iteration of "for week in postseason_weeks"
ProcessPostseasonWeek ==
    /\ status = "done"
    /\ Len(postseason) < postseason_weeks
    /\ \E wk \in PostWeekFiles :
          LET n == MaxWeek + Len(postseason) + 1
              files == season \o [i \in 1..Len(postseason) |-> postseason[i].files]
                              \o <<wk>>
          IN  IF ~wk.has_matchups
              THEN \* "No matchups file found, skipping"
                   /\ postseason' = Append(postseason,
                          [week |-> n, files |-> wk, recap |-> None])
                   /\ UNCHANGED <<cached_standings, matchups, transactions>>
              ELSE /\ matchups' = wk.matchups
                   /\ transactions' = IF wk.has_transactions THEN wk.transactions
                                      ELSE <<>>
                   /\ postseason' = Append(postseason,
                          [week |-> n, files |-> wk,
                           recap |-> Some(generate_weekly_postseason_recap(
                                              matchups', transactions', <<>>))])
                   /\ cached_standings' =
                          PostseasonSnapshot(files, n, rosters_map, cached_standings)
    /\ UNCHANGED <<rosters_map, season, week, standings, final_standings, status>>
    /\ UNCHANGED postseason_weeks
    /\ SeasonFrame

\* the end of process_season
CompleteSeason ==
    /\ status = "done"
    /\ Len(postseason) = postseason_weeks
    /\ status' = "completed"
    /\ UNCHANGED <<rosters_map, season, week, cached_standings, matchups,
                   transactions, standings, final_standings>>
    /\ UNCHANGED postVars
    /\ SeasonFrame

SeasonNext ==
    \/ ProcessRegularWeek
    \/ FinishRegularSeason
    \/ ProcessPostseasonWeek
    \/ CompleteSeason

SpecSeason == WholeSeasonInit /\ [][SeasonNext]_vars

\* the snapshot after the last regular-season week
SnapshotAfterRegularSeason ==
    LET last == CHOOSE w \in 0..MaxWeek :
                    /\ w > 0 => season[w].has_matchups
                    /\ \A v \in (w + 1)..MaxWeek : ~season[v].has_matchups
    IN  IF last = 0 THEN calculate_weekly_standings_dict(season, MaxWeek, rosters_map, None)
        ELSE FoldWeekly(season, rosters_map, last)

\* C20: process_season takes the regular-season weeks one by one in
\* ascending order, with one standings advance for each week that has
\* matchups and none for a week without; the postseason weeks come after
\* the last regular-season week and the final standings, in ascending
\* order, and none of them changes the snapshot or the final standings;
\* the final standings are the rows of the snapshot after the last
\* regular-season week.
C20_RegularThenPostseason ==
    [][/\ week' \in {week, week + 1}
       /\ Len(season') = week'
       /\ week' = week + 1 =>
             /\ postseason = <<>> /\ postseason' = <<>>
             /\ final_standings = None
             /\ IF season'[week'].has_matchups /\ status' = "running"
                THEN LET r == calculate_weekly_standings_dict(
                                  season', week', rosters_map, cached_standings)
                     IN  r.ok /\ cached_standings' = Some(r.standings)
                ELSE cached_standings' = cached_standings
       /\ postseason' # postseason =>
             /\ week = MaxWeek /\ week' = week
             /\ final_standings # None
             /\ Len(postseason') = Len(postseason) + 1
             /\ postseason'[Len(postseason')].week = MaxWeek + Len(postseason')
             /\ cached_standings' = cached_standings
             /\ standings' = standings
             /\ final_standings' = final_standings
       /\ final_standings' # None =>
             /\ SnapshotAfterRegularSeason.ok
             /\ final_standings'[1] =
                    standings_to_list(SnapshotAfterRegularSeason.standings)
             /\ cached_standings' # None =>
                    cached_standings'[1] = SnapshotAfterRegularSeason.standings
      ]_vars

\* a completed season whose postseason week had matchups and whose final
\* standings carry the win of a regular-season week
C20_Witness ==
    /\ status = "completed"
    /\ postseason_weeks = MaxPostWeek
    /\ Len(postseason) = MaxPostWeek
    /\ postseason[MaxPostWeek].recap # None
    /\ final_standings # None
    /\ \E i \in 1..Len(final_standings[1]) : final_standings[1][i].wins > 0

(***************************************************************************)
(* League-wide totals of the Standings Accumulator                         *)
(***************************************************************************)
RECURSIVE SumField(_, _)
SumField(snapshot, field) ==
    IF snapshot = <<>> THEN 0
    ELSE (CASE field = "wins" -> Head(snapshot).wins
            [] field = "losses" -> Head(snapshot).losses
            [] field = "ties" -> Head(snapshot).ties
            [] field = "pf" -> Head(snapshot).pf
            [] OTHER -> Head(snapshot).pa)
         + SumField(Tail(snapshot), field)

\* the two-entry groups with two roster ids, of the matchups of one week,
\* that hold the roster rid
ScoredGroupsOf(wk, rid) ==
    {mid \in MatchupIds \ {0} :
        LET group == GroupOf(wk.matchups, mid)
        IN  /\ wk.has_matchups
            /\ Len(group) = 2
            /\ group[1].roster_id # 0 /\ group[2].roster_id # 0
            /\ rid \in {group[1].roster_id, group[2].roster_id}}

RECURSIVE GamesOfRoster(_, _, _)
GamesOfRoster(files, n, rid) ==
    IF n = 0 THEN 0
    ELSE Cardinality(ScoredGroupsOf(files[n], rid)) + GamesOfRoster(files, n - 1, rid)

C30_WinsPlusLossesIsGamesPlayed ==
    manager_stats # None =>
        \A k \in 1..Len(manager_stats[1]) :
            LET row == manager_stats[1][k]
                games == stats_by_user[UserIndex(stats_by_user, row.user_id)].games
            IN  /\ row.games_played = Len(games)
                /\ row.wins + row.losses = row.games_played
                /\ row.losses
                     = Cardinality({i \in 1..Len(games) :
                                       games[i].points <= games[i].opponent_points})

\* ranked rows of two participants who tied a game against each other
C30_Witness ==
    /\ manager_stats # None
    /\ \E k \in 1..Len(manager_stats[1]) :
          LET row == manager_stats[1][k]
              games == stats_by_user[UserIndex(stats_by_user, row.user_id)].games
          IN  /\ row.wins > 0
              /\ \E i \in 1..Len(games) : games[i].points = games[i].opponent_points

(***************************************************************************)
(* API client: call_api of src/src/api_calls.py                            *)
(***************************************************************************)
MAX_RETRIES == 3
INITIAL_RETRY_DELAY == 1
MAX_RETRY_DELAY == 10

\* what one requests.get(url, timeout=30) can end in: a JSON answer, an
\* answer with an error status (raise_for_status raises HTTPError), a body
\* that is no JSON, or no answer (ConnectionError, Timeout)
ApiOutcomes ==
    [kind : {"json", "not_json", "no_answer"}, status : {200}]
    \cup [kind : {"http_error"}, status : {404, 429, 500}]

\* bool(e.response): requests.Response.__bool__ returns Response.ok, which
\* is False for the status of every answer raise_for_status raises on
ResponseTruth(code) == code < 400

\* "e.response.status_code if e.response else None"; None is 0 here
StatusCodeOf(code) == IF ResponseTruth(code) THEN code ELSE 0

Power2(n) == IF n = 0 THEN 1 ELSE IF n = 1 THEN 2 ELSE IF n = 2 THEN 4 ELSE 8

\* min(INITIAL_RETRY_DELAY * (2 ** attempt), MAX_RETRY_DELAY)
RetryDelay(attempt) ==
    IF INITIAL_RETRY_DELAY * Power2(attempt) < MAX_RETRY_DELAY
    THEN INITIAL_RETRY_DELAY * Power2(attempt) ELSE MAX_RETRY_DELAY

ApiInit ==
    /\ api_responses \in [1..(MAX_RETRIES + 1) -> ApiOutcomes]
    /\ api_attempt = 0
    /\ api_events = <<>>
    /\ api_result = None
    /\ SeasonIdle
    /\ OtherIdle
    /\ CallIdle
    /\ StatsIdle
    /\ BatchIdle
    /\ PostIdle
    /\ BracketIdle

ApiFrame ==
    /\ UNCHANGED api_responses
    /\ UNCHANGED seasonVars
    /\ UNCHANGED otherVars
    /\ UNCHANGED callVars
    /\ UNCHANGED statsVars
    /\ UNCHANGED batchVars
    /\ UNCHANGED postVars
    /\ UNCHANGED bracketVars

\* "return response.json()"
ApiReturn(answer) ==
    /\ api_result' = Some([raised |-> FALSE, status_code |-> 0])
    /\ api_events' = Append(api_events, [call |-> "get", arg |-> api_attempt])
    /\ UNCHANGED api_attempt

\* "raise last_exception" inside the loop
ApiRaise(status_code) ==
    /\ api_result' = Some([raised |-> TRUE, status_code |-> status_code])
    /\ api_events' = Append(api_events, [call |-> "get", arg |-> api_attempt])
    /\ UNCHANGED api_attempt

\* the end of an iteration that raised nothing out of the loop: sleep and
\* go on, or leave the loop and raise last_exception
ApiRetry(status_code) ==
    IF api_attempt < MAX_RETRIES
    THEN /\ api_events' = api_events
                \o <<[call |-> "get", arg |-> api_attempt],
                     [call |-> "sleep", arg |-> RetryDelay(api_attempt)]>>
         /\ api_attempt' = api_attempt + 1
         /\ UNCHANGED api_result
    ELSE ApiRaise(status_code)

\* one iteration of "for attempt in range(max_retries + 1)"
ApiAttempt ==
    /\ api_result = None
    /\ api_attempt <= MAX_RETRIES
    /\ LET answer == api_responses[api_attempt + 1]
       IN  CASE answer.kind = "json" -> ApiReturn(answer)
             [] answer.kind = "http_error" ->
                   LET status_code == StatusCodeOf(answer.status)
                   IN  IF status_code # 0 /\ 400 <= status_code /\ status_code < 500
                       THEN ApiRaise(status_code)
                       ELSE ApiRetry(status_code)
             [] answer.kind = "no_answer" -> ApiRetry(0)
             [] OTHER ->
                   \* response.json() raises requests' JSONDecodeError, a
                   \* RequestException, or json.JSONDecodeError with a
                   \* requests before 2.27
                   ApiRetry(0) \/ ApiRaise(0)
    /\ ApiFrame

SpecApi == ApiInit /\ [][ApiAttempt]_vars

\* C26: a request that fails with an HTTP 4xx status ends call_api at once
\* with APIError: that request is the last event, no sleep and no request
\* follow; a request without answer or with a 5xx status is followed by a
\* sleep and another request while fewer than max_retries retries were made.
C26_ClientErrorsNotRetried ==
    [][api_result = None =>
        LET answer == api_responses[api_attempt + 1]
        IN  /\ (answer.kind = "http_error" /\ answer.status \in 400..499) =>
                  /\ api_result' # None /\ api_result'[1].raised
                  /\ api_events' = Append(api_events, [call |-> "get", arg |-> api_attempt])
            /\ ((answer.kind = "no_answer"
                   \/ (answer.kind = "http_error" /\ answer.status >= 500))
                /\ api_attempt < MAX_RETRIES) =>
                  /\ api_result' = None
                  /\ api_attempt' = api_attempt + 1
      ]_vars

(***************************************************************************)
(* Bracket display: map_bracket of src/src/postseason.py and               *)
(* src/src/reports/bracket_generator.py                                    *)
(* A node of winners_bracket.json is [m, t1, t2, w, l, t1_from, t2_from];  *)
(* t1, t2, w, l are a roster id, JsonNull, or NoKey when the node has no   *)
(* such key; t1_from and t2_from are <<>> or <<[side, m]>> for {side: m}.  *)
(***************************************************************************)
NoKey == -1
JsonNull == 0

\* the value of a name key a mapped node does not have
NoName == "<no key>"

\* rosters_map.get(roster_id, {}).get('team_name', f'Team {roster_id}') on
\* the roster map {1: Alpha, 2: Beta} of a league with the rosters 1, 2, 3
TeamNameOf(roster_id) ==
    CASE roster_id = 1 -> "Alpha"
      [] roster_id = 2 -> "Beta"
      [] roster_id = JsonNull -> "Team None"
      [] OTHER -> "Team 3"

\* the name keys map_bracket adds to one node: "if 't1' in matchup"
MappedNode(node) ==
    [m |-> node.m, t1_from |-> node.t1_from, t2_from |-> node.t2_from,
     t1_team_name |-> IF node.t1 = NoKey THEN NoName ELSE TeamNameOf(node.t1),
     t2_team_name |-> IF node.t2 = NoKey THEN NoName ELSE TeamNameOf(node.t2),
     winner_team_name |-> IF node.w = NoKey THEN NoName ELSE TeamNameOf(node.w),
     loser_team_name |-> IF node.l = NoKey THEN NoName ELSE TeamNameOf(node.l)]

map_bracket(bracket) == [i \in 1..Len(bracket) |-> MappedNode(bracket[i])]

\* d.get(key, 'TBD') for a name key
GetName(name) == IF name = NoName THEN "TBD" ELSE name

\* the lookup of the node a from-reference names: "if t1_from", "if
\* ref_matchup_id", matchup_map.get, "if ref_matchup", then the winner or
\* the loser name of the node; otherwise the name given as fallback
FromReference(from, bracket, fallback) ==
    IF from = <<>> THEN fallback
    ELSE IF \E i \in 1..Len(bracket) : bracket[i].m = from[1].m
         THEN LET ref == bracket[CHOOSE i \in 1..Len(bracket) : bracket[i].m = from[1].m]
              IN  IF from[1].side = "w" THEN GetName(ref.winner_team_name)
                  ELSE GetName(ref.loser_team_name)
         ELSE fallback

\* resolve_team_name
resolve_team_name(matchup, bracket) ==
    IF matchup.t1_team_name # NoName /\ matchup.t1_team_name # "Team None"
    THEN matchup.t1_team_name
    ELSE FromReference(matchup.t1_from, bracket, "TBD")

\* get_team_from_matchup
get_team_from_matchup(matchup, bracket, is_team1) ==
    IF is_team1
    THEN LET team_name == GetName(matchup.t1_team_name)
         IN  IF team_name = "Team None" THEN resolve_team_name(matchup, bracket)
             ELSE team_name
    ELSE LET team_name == GetName(matchup.t2_team_name)
         IN  IF team_name = "Team None"
             THEN FromReference(matchup.t2_from, bracket, team_name)
             ELSE team_name

\* the references a slot of the second node can carry
FromReferences == {<<>>} \cup {<<[side |-> sd, m |-> ref]>> : sd \in {"w", "l"}, ref \in {1, 9}}

\* a first-round node between the rosters 1 and 3, decided or not, and a
\* second-round node
BracketInit ==
    /\ bracket_data \in
          {<<[m |-> 1, t1 |-> 1, t2 |-> 3, w |-> w1, l |-> l1,
              t1_from |-> <<>>, t2_from |-> <<>>],
             [m |-> 2, t1 |-> a, t2 |-> b, w |-> JsonNull, l |-> JsonNull,
              t1_from |-> fa, t2_from |-> fb]>> :
              w1 \in {NoKey, JsonNull, 1, 3}, l1 \in {NoKey, JsonNull, 1, 3},
              a \in {NoKey, JsonNull, 2}, b \in {NoKey, JsonNull, 2},
              fa \in FromReferences, fb \in FromReferences}
    /\ mapped_bracket = None
    /\ slot_names = None
    /\ SeasonIdle
    /\ OtherIdle
    /\ CallIdle
    /\ StatsIdle
    /\ BatchIdle
    /\ PostIdle
    /\ ApiIdle

BracketFrame ==
    /\ UNCHANGED bracket_data
    /\ UNCHANGED seasonVars
    /\ UNCHANGED otherVars
    /\ UNCHANGED callVars
    /\ UNCHANGED statsVars
    /\ UNCHANGED batchVars
    /\ UNCHANGED postVars
    /\ UNCHANGED apiVars

\* generate_postseason_recap: the mapped bracket of the recap
MapBracket ==
    /\ mapped_bracket = None
    /\ mapped_bracket' = Some(map_bracket(bracket_data))
    /\ UNCHANGED slot_names
    /\ BracketFrame

\* generate_simple_bracket: the two names of every node
GenerateSimpleBracket ==
    /\ mapped_bracket # None
    /\ slot_names = None
    /\ slot_names' =
          Some([i \in 1..Len(mapped_bracket[1]) |->
                  [team1 |-> get_team_from_matchup(mapped_bracket[1][i],
                                                   mapped_bracket[1], TRUE),
                   team2 |-> get_team_from_matchup(mapped_bracket[1][i],
                                                   mapped_bracket[1], FALSE)]])
    /\ UNCHANGED mapped_bracket
    /\ BracketFrame

BracketNext == MapBracket \/ GenerateSimpleBracket

SpecBracket == BracketInit /\ [][BracketNext]_vars

\* the name the slot with the roster t and the reference from shall show
ExpectedSlotName(t, from) ==
    IF t \notin {NoKey, JsonNull} THEN TeamNameOf(t)
    ELSE IF from = <<>> THEN "TBD"
    ELSE IF \E i \in 1..Len(bracket_data) : bracket_data[i].m = from[1].m
         THEN LET ref == bracket_data[CHOOSE i \in 1..Len(bracket_data) :
                                          bracket_data[i].m = from[1].m]
                  decided == IF from[1].side = "w" THEN ref.w ELSE ref.l
              IN  IF decided \notin {NoKey, JsonNull} THEN TeamNameOf(decided)
                  ELSE "TBD"
         ELSE "TBD"

\* C25: a slot with a team shows the name of the team; a slot that refers
\* to another node shows the name of that node's winner (reference by 'w')
\* or loser (reference by 'l') once the node has one; every other slot,
\* also one that refers to an undecided or a missing node, shows 'TBD'
\* (generate_simple_bracket leaves out a second slot named 'Team None',
\* which is accepted where 'TBD' is due).
C25_PlaceholderUntilDecided ==
    slot_names # None =>
        \A i \in 1..Len(bracket_data) :
            /\ slot_names[1][i].team1
                 = ExpectedSlotName(bracket_data[i].t1, bracket_data[i].t1_from)
            /\ \/ slot_names[1][i].team2
                    = ExpectedSlotName(bracket_data[i].t2, bracket_data[i].t2_from)
               \/ /\ slot_names[1][i].team2 = "Team None"
                  /\ ExpectedSlotName(bracket_data[i].t2, bracket_data[i].t2_from) = "TBD"

(***************************************************************************)
(* Further properties of the Lineup Optimizer                              *)
(***************************************************************************)
\* C28: every participant of a lineup _build_team returns has an entry in
\* positions_map and is eligible for the slot: the positions of the holder
\* of a QB, RB, WR, TE, K or DEF slot contain that category, those of the
\* holder of a FLEX slot contain RB, WR or TE.
C28_PlacedAreEligible ==
    lineup # None =>
        \A i \in 1..Len(lineup[1].team) :
            LET slot == lineup[1].team[i]
            IN  /\ slot.player_id \in DOMAIN positions_map
                /\ IF slot.pos = POSITION_FLEX
                   THEN Range(positions_map[slot.player_id])
                            \cap {POSITION_RB, POSITION_WR, POSITION_TE} # {}
                   ELSE /\ slot.pos \in {POSITION_QB, POSITION_RB, POSITION_WR,
                                         POSITION_TE, POSITION_K, POSITION_DEF}
                        /\ slot.pos \in Range(positions_map[slot.player_id])

\* a lineup with one slot filled, built from candidates among which a
\* scorer without entry in positions_map passed the score filter
C28_Witness ==
    /\ lineup # None
    /\ Len(lineup[1].team) = 1
    /\ \E i \in 1..Len(lineup[1].candidates) :
          /\ lineup[1].candidates[i].player_id \notin DOMAIN positions_map
          /\ lineup[1].candidates[i].points > 0

\* the stages of the _build_team call that built the lineup l
StagesOf(l) ==
    BuildStages(l.candidates, roster_template,
                l.caller # "build_lowest_team",
                IF l.caller = "build_optimal_team" THEN Some(<<>>) ELSE None,
                0)

FixedSlots == {POSITION_QB, POSITION_RB, POSITION_WR, POSITION_TE}

SurvivorsOf(l) ==
    AvailablePlayers(l.candidates,
                     IF l.caller = "build_optimal_team" THEN Some(<<>>) ELSE None, 0)

\* number of slots of the category pos in the template (_build_team fills
\* at most two FLEX slots)
SlotsOf(pos) == Cardinality({i \in 1..Len(roster_template) : roster_template[i] = pos})

\* number of slots of the category pos the lineup has filled
FilledOf(team, pos) == Cardinality({i \in 1..Len(team) : team[i].pos = pos})

EligibleFor(pid, pos) ==
    /\ pid \in DOMAIN positions_map
    /\ IF pos = POSITION_FLEX THEN is_flex_eligible(pid) ELSE HasPosition(pid, pos)

\* C22: when the returned lineup leaves a slot of a category empty, every
\* candidate that passed the filter and is eligible for the category holds
\* some slot of the lineup.
C22_EmptyOnlyWhenExhausted ==
    lineup # None =>
        \A pos \in {POSITION_QB, POSITION_RB, POSITION_WR, POSITION_TE,
                    POSITION_K, POSITION_DEF, POSITION_FLEX} :
            FilledOf(lineup[1].team, pos) < SlotsOf(pos) =>
                \A i \in 1..Len(SurvivorsOf(lineup[1])) :
                    EligibleFor(SurvivorsOf(lineup[1])[i].player_id, pos) =>
                        SurvivorsOf(lineup[1])[i].player_id \in Placed(lineup[1].team)

(***************************************************************************)
(* Bench efficiency: calculate_awards of src/src/recap/awards.py           *)
(***************************************************************************)
\* sum(matchup.get('starters_points', [])): the API lists in starters_points
\* the scores of the starters
actual_score(matchup) ==
    SumSeq([i \in 1..Len(matchup.starters) |->
               PointsOf(matchup.players_points, matchup.starters[i])])

\* points_left_on_bench of one matchup
points_left_on_bench(matchup, roster_positions) ==
    _calculate_optimal_lineup_score(matchup, roster_positions) - actual_score(matchup)

\* the starters of the matchup with the position pos
StartersAt(matchup, pos) ==
    {i \in 1..Len(matchup.starters) :
        /\ matchup.starters[i] \in DOMAIN positions_map
        /\ HasPosition(matchup.starters[i], pos)}

Over(n, slots) == IF n > slots THEN n - slots ELSE 0

\* the starters fit the template [QB, RB, RB, WR, WR, TE, FLEX, FLEX, K, DEF]
ValidStarters(matchup) ==
    /\ Cardinality(StartersAt(matchup, POSITION_QB)) <= 1
    /\ Cardinality(StartersAt(matchup, POSITION_K)) <= 1
    /\ Cardinality(StartersAt(matchup, POSITION_DEF)) <= 1
    /\ Over(Cardinality(StartersAt(matchup, POSITION_RB)), 2)
         + Over(Cardinality(StartersAt(matchup, POSITION_WR)), 2)
         + Over(Cardinality(StartersAt(matchup, POSITION_TE)), 1) <= 2

\* the case of C29: the full template, players with exactly one position
\* and no negative score, starters that fit the template
BenchEfficiencyCase(matchup) ==
    /\ SelectSeq(roster_template, LAMBDA pos : pos # POSITION_BN)
         = <<"QB", "RB", "RB", "WR", "WR", "TE", "FLEX", "FLEX", "K", "DEF">>
    /\ \A i \in 1..Len(matchup.players_points) :
          /\ matchup.players_points[i].player_id \in DOMAIN positions_map
          /\ Len(positions_map[matchup.players_points[i].player_id]) = 1
          /\ matchup.players_points[i].points >= 0
    /\ ValidStarters(matchup)

WeekPool == <<"RB1", "WR1", "K1", "KD1">>
WeekPointValues == {0, 3000}

\* most players on the second team of the week, and the players it can have
MaxSecondTeam == 2
SecondTeamPool == <<"RB1", "WR1", "KD1">>

\* the rosters of at most n players of the pool with scores of values
RECURSIVE WeekRosters(_, _, _)
WeekRosters(pool, n, values) ==
    IF pool = <<>> \/ n = 0 THEN {<<>>}
    ELSE WeekRosters(Tail(pool), n, values)
         \cup {<<[player_id |-> Head(pool), points |-> p, started |-> b]>> \o r :
                  p \in values, b \in BOOLEAN,
                  r \in WeekRosters(Tail(pool), n - 1, values)}

WeekInit ==
    /\ roster_template
         = <<"QB", "RB", "RB", "WR", "WR", "TE", "FLEX", "FLEX", "K", "DEF", "BN">>
    /\ team_matchups \in
          {<<TeamEntry(r1), TeamEntry(r2)>> :
              r1 \in WeekRosters(WeekPool, MaxPlayers, WeekPointValues) \ {<<>>},
              r2 \in WeekRosters(SecondTeamPool, MaxSecondTeam, {0, 6000}) \ {<<>>}}
    /\ lineup = None
    /\ matchup_results = None
    /\ SeasonIdle
    /\ ExtIdle

WeekNext == WorstStartedLineup \/ BenchStandoutsLineup

SpecWeek == WeekInit /\ [][WeekNext]_vars

\* the scores of the participant pid on the teams where it started
StartedScores(pid) ==
    {PointsOf(team_matchups[k].players_points, pid) :
        k \in {j \in 1..Len(team_matchups) : pid \in Range(team_matchups[j].starters)}}

\* C23: the candidates of the worst started lineup are the participants of
\* the starters lists of the week, each with the lowest of its scores on
\* the teams where it started, and every holder of a slot is one of them
\* with that score; a participant that was on the bench of every team is
\* no candidate and holds no slot.
C23_WorstLineupFromStarters ==
    (lineup # None /\ lineup[1].caller = "build_lowest_team") =>
        LET candidates == lineup[1].candidates
            team == lineup[1].team
        IN  /\ {candidates[i].player_id : i \in 1..Len(candidates)}
                  = UNION {Range(team_matchups[k].starters) : k \in 1..Len(team_matchups)}
            /\ \A i \in 1..Len(candidates) :
                  candidates[i].points = SetMin(StartedScores(candidates[i].player_id))
            /\ \A i \in 1..Len(team) :
                  /\ StartedScores(team[i].player_id) # {}
                  /\ team[i].points = SetMin(StartedScores(team[i].player_id))

\* a participant that started on both teams with different scores holds a
\* slot, and another one sat on a bench
C23_Witness ==
    /\ lineup # None
    /\ lineup[1].caller = "build_lowest_team"
    /\ \E i \in 1..Len(lineup[1].team) :
          Cardinality(StartedScores(lineup[1].team[i].player_id)) = 2
    /\ \E k \in 1..Len(team_matchups) : BenchPlayers(team_matchups[k]) # <<>>

\* the scores of the starters of the team that have a position of cats
StarterScoresIn(matchup, cats) ==
    {PointsOf(matchup.players_points, sid) :
        sid \in {x \in Range(matchup.starters) :
                    /\ x \in DOMAIN positions_map
                    /\ Range(positions_map[x]) \cap cats # {}}}

\* the bench player pid of the team out-scored the lowest starter of a
\* category it shares, or, being flex-eligible, the lowest flex-eligible
\* starter
Qualifies(matchup, pid) ==
    LET score == PointsOf(matchup.players_points, pid)
        flex == {POSITION_RB, POSITION_WR, POSITION_TE}
    IN  /\ pid \in Range(matchup.players) \ Range(matchup.starters)
        /\ pid \in DOMAIN positions_map
        /\ \/ \E cat \in Range(positions_map[pid]) :
                 /\ StarterScoresIn(matchup, {cat}) # {}
                 /\ score > SetMin(StarterScoresIn(matchup, {cat}))
           \/ /\ Range(positions_map[pid]) \cap flex # {}
              /\ StarterScoresIn(matchup, flex) # {}
              /\ score > SetMin(StarterScoresIn(matchup, flex))

\* the scores of pid on the teams where it qualifies
QualifyingScores(pid) ==
    {PointsOf(team_matchups[k].players_points, pid) :
        k \in {j \in 1..Len(team_matchups) : Qualifies(team_matchups[j], pid)}}

SetMax(S) == CHOOSE x \in S : \A y \in S : y <= x

====
